---- MODULE Spec2Model ----
(***************************************************************************)
(* Zone-triggered effect orchestration of saudade: the EffectZoneManager   *)
(* (effect-zones.js), the FloatingLightsManager (floating-lights.js) and   *)
(* the host's per-frame callback with its enter/exit callbacks (main.js),  *)
(* together with what that callback drives besides: the proximity         *)
(* triggers of audio.js and the camera tracking of VR sessions.           *)
(*                                                                         *)
(* Numbers.  Coordinates are integers of the zone grid.  Intensities are   *)
(* JavaScript Numbers, that is IEEE-754 doubles, with the arithmetic and   *)
(* the rounding of the language (see "JavaScript numbers" below).          *)
(*                                                                         *)
(* Objects.  A JavaScript object is a record; a field that is absent is    *)
(* absent from the record's DOMAIN.  null is NullValue.                     *)
(***************************************************************************)
EXTENDS Integers, Sequences, FiniteSets, TLC

VARIABLES
    phase,                  \* "constructed" | "running" | "halted"
    zones,                  \* EffectZoneManager.zones
    activeZones,            \* EffectZoneManager.activeZones (Set of ids)
    loadThrew,              \* loadConfig ended by throwing
    lightZones,             \* FloatingLightsManager.activeZones (Map id -> zoneData)
    splatEditSdfs,          \* SDF handles registered with sceneSplatEdit
    sceneMeshes,            \* mesh handles registered with the scene
    geometryDisposed,       \* the shared sphereGeometry was disposed
    targetFlickerIntensity, \* main.js
    currentFlickerIntensity,\* main.js
    intensityVal,           \* flicker.js: the value setIntensity wrote
    flickerAmountVal,       \* flicker.js: the value updateFromConfig wrote
    cameraWorldPos,         \* the position the last frame passed to update
    frameLog,               \* what the last frame did, in order
    lastEvent,              \* per zone id: the last event fired for it
    rampStart,              \* the ramp on its own: the value it started from
    rampSteps,              \* the ramp on its own: the steps taken so far
    calls,                  \* the lights manager on its own: its latest calls
    effectsConfig,          \* main.js: the document passed to loadConfig
    loads,                  \* the calls of loadConfig so far
    probe,                  \* isInsideZone on its own: the latest question
    audio,                  \* audio.js: _audioEnabled, spatialAudioSources, loads in flight
    xr,                     \* main.js: camera tracking and the VR entry grace period
    swarm                   \* the particles of one group, with their motion

vars == <<phase, zones, activeZones, loadThrew, lightZones, splatEditSdfs,
          sceneMeshes, geometryDisposed, targetFlickerIntensity,
          currentFlickerIntensity, intensityVal, flickerAmountVal,
          cameraWorldPos, frameLog, lastEvent, rampStart, rampSteps, calls,
          effectsConfig, loads, probe, audio, xr, swarm>>

----------------------------------------------------------------------------
(* Bounds of the model *)

MaxZones == 2   \* entries of a configuration
MaxX == 3       \* the observer walks the x axis over 0..MaxX
MaxRampSteps == 31  \* steps of a ramp that runs on its own

(* Program constants *)

FLICKER_FADE_SPEED == 2
FramesPerSecond == 60
DefaultCount == 5
DefaultColor == 10079487

----------------------------------------------------------------------------
(* JavaScript numbers.  A Number is an IEEE-754 double.  Every double the
   program computes here is a multiple of 2^-58 below 2 in magnitude, and is
   held as the integer N = value * 2^58 in two limbs: N = hi * Limb + lo with
   0 <= lo < Limb (for a negative N, hi is negative).  Sums are formed
   exactly and then rounded to 53 significant bits, to nearest, ties to
   even, as the hardware does. *)

Limb == 536870912          \* 2^29
ExactBelowHi == 16777216   \* N < 2^53 exactly when hi < 2^24
FractionBits == 58

Dbl(hi, lo) == [hi |-> hi, lo |-> lo]

DZero == Dbl(0, 0)

DLess(a, b) == a.hi < b.hi \/ (a.hi = b.hi /\ a.lo < b.lo)

DLeq(a, b) == a = b \/ DLess(a, b)

DNeg(a) == IF a.lo = 0 THEN Dbl(0 - a.hi, 0) ELSE Dbl(0 - a.hi - 1, Limb - a.lo)

DAbs(a) == IF a.hi < 0 THEN DNeg(a) ELSE a

(* The exact sum of two numbers of the grid *)
ExactAdd(a, b) ==
    LET lo == a.lo + b.lo
    IN Dbl(a.hi + b.hi + (lo \div Limb), lo % Limb)

ExactSub(a, b) == ExactAdd(a, DNeg(b))

(* The spacing of the doubles around a non-negative N, in units of 2^-58 *)
RECURSIVE UlpOf(_, _)
UlpOf(hi, u) == IF hi \div u < ExactBelowHi THEN u ELSE UlpOf(hi, 2 * u)

(* Round a non-negative N + f, 0 <= f < 1, to the nearest double, ties to
   even; frac is "zero", "below", "half" or "above" as f is 0, under 1/2,
   1/2 or over 1/2 *)
RoundParts(a, frac) ==
    LET u == UlpOf(a.hi, 1)
        r == a.lo % u
        down == a.lo - r
        up == down + u
        even == IF (down \div u) % 2 = 0 THEN down ELSE up
        pick == IF u = 1
                THEN (IF frac \in {"zero", "below"} THEN down
                      ELSE IF frac = "above" THEN up ELSE even)
                ELSE (IF 2 * r < u THEN down
                      ELSE IF 2 * r > u THEN up
                      ELSE IF frac = "zero" THEN even ELSE up)
    IN IF pick = Limb THEN Dbl(a.hi + 1, 0) ELSE Dbl(a.hi, pick)

Round(a) == IF a.hi < 0 THEN DNeg(RoundParts(DNeg(a), "zero")) ELSE RoundParts(a, "zero")

(* a + b and a - b of JavaScript *)
DAdd(a, b) == Round(ExactAdd(a, b))

DSub(a, b) == Round(ExactSub(a, b))

DMin(a, b) == IF DLess(b, a) THEN b ELSE a

DMax(a, b) == IF DLess(a, b) THEN b ELSE a

(* k * a for a small non-negative integer k *)
RECURSIVE ExactTimes(_, _)
ExactTimes(k, a) == IF k = 0 THEN DZero ELSE ExactAdd(a, ExactTimes(k - 1, a))

DTimes(k, a) == Round(ExactTimes(k, a))

(* Long division: the first n binary digits after the point of rem / q.
   Each digit is computed before the next one is asked for. *)
RECURSIVE LongDiv(_, _, _, _)
LongDiv(rem, q, n, acc) ==
    IF n = 0 \/ acc.lo < 0
    THEN [quot |-> acc, rem |-> rem]
    ELSE LET bit == IF 2 * rem >= q THEN 1 ELSE 0
         IN LongDiv(2 * rem - bit * q, q, n - 1,
                    ExactAdd(ExactAdd(acc, acc), Dbl(0, bit)))

(* The double p / q, which is also the double a decimal literal of that
   value denotes, for integers 0 < p <= q with p / q >= 2^-6 *)
DRatio(p, q) ==
    IF p = q THEN Dbl(Limb, 0)
    ELSE LET d == LongDiv(p, q, FractionBits, DZero)
             frac == IF d.rem = 0 THEN "zero"
                     ELSE IF 2 * d.rem < q THEN "below"
                     ELSE IF 2 * d.rem = q THEN "half" ELSE "above"
         IN RoundParts(d.quot, frac)

DOne == DRatio(1, 1)

(* const deltaTime = 1 / 60 *)
deltaTime == DRatio(1, FramesPerSecond)

(* flickerAmount || 0.4 and the flickerAmount option of main.js *)
DefaultFlickerAmount == DRatio(4, 10)
InitialFlickerAmount == DRatio(4, 10)

NullValue == [null |-> TRUE]

(* No containment question has been asked *)
NoProbe == [asked |-> FALSE]
NoEffects == [e \in {} |-> NullValue]

Vec(a, b, c) == [x |-> a, y |-> b, z |-> c]

(* audio.js with no source configured: initializeAudio has returned, nothing
   is loaded and audio is off *)
NoAudio == [enabled |-> FALSE, returned |-> TRUE, pending |-> {}, sources |-> <<>>]

(* main.js outside VR: camera and localFrame at the origin, no session yet *)
NoSession ==
    [isPresenting |-> FALSE, vrEntryFrameCount |-> 0,
     camera |-> Vec(0, 0, 0), lastCameraPos |-> Vec(0, 0, 0),
     localFrame |-> Vec(0, 0, 0),
     sessions |-> 0, xrFrames |-> 0, shifted |-> FALSE]

(* No particle group is followed *)
NoSwarm == [spawned |-> FALSE]

Positions == {Vec(a, 0, 0) : a \in 0..MaxX}

----------------------------------------------------------------------------
(* Configuration documents.  The entries of ZonePool are combined in every
   order; flickerAmount is any number the document holds. *)

ZonePool == <<
    [id |-> "hall", type |-> "box",
     bounds |-> [min |-> <<1, -1, -1>>, max |-> <<2, 1, 1>>],
     effects |-> [flickering |-> [enabled |-> TRUE, flickerAmount |-> DRatio(1, 10)],
                  floatingLights |-> [enabled |-> TRUE, count |-> 2]]],
    [id |-> "room", type |-> "sphere",
     bounds |-> [min |-> <<2, 0, 0>>, max |-> <<1, 0, 0>>],
     effects |-> [flickering |-> [enabled |-> TRUE, flickerAmount |-> DZero]]],
    [id |-> "nook",
     bounds |-> [min |-> <<0, 0, 0>>, max |-> <<1, 2, 2>>],
     effects |-> [flickering |-> [enabled |-> TRUE],
                  floatingLights |-> [enabled |-> TRUE]]],
    [id |-> "cellar", type |-> "box",
     bounds |-> [min |-> <<2, -1, 0>>, max |-> <<3, 0, 1>>],
     effects |-> [flickering |-> [enabled |-> TRUE, flickerAmount |-> DNeg(DRatio(1, 10))]]],
    [id |-> "yard", type |-> "box",
     bounds |-> [min |-> <<0, 0, 0>>, max |-> <<1, 1, 1>>],
     effects |-> [flickering |-> [enabled |-> FALSE, flickerAmount |-> DRatio(3, 10)],
                  floatingLights |-> [enabled |-> FALSE, count |-> 1]]]
>>

(* A zone of an unknown shape, and a zone without type and effects *)
VoidEntry ==
    [id |-> "void", type |-> "cylinder",
     bounds |-> [min |-> <<0, -1, -1>>, max |-> <<3, 1, 1>>],
     effects |-> [flickering |-> [enabled |-> TRUE, flickerAmount |-> DRatio(3, 10)],
                  floatingLights |-> [enabled |-> TRUE, count |-> 1]]]

PorchEntry ==
    [id |-> "porch",
     bounds |-> [min |-> <<2, -1, -1>>, max |-> <<3, 0, 0>>]]

(* A zone whose type is the empty string and whose effects are null *)
AtticEntry ==
    [id |-> "attic", type |-> "", effects |-> NullValue,
     bounds |-> [min |-> <<0, 0, 0>>, max |-> <<1, 1, 1>>]]

(* An entry without bounds *)
MalformedEntry ==
    [id |-> "broken", type |-> "box",
     effects |-> [flickering |-> [enabled |-> TRUE]]]

ZoneIds ==
    {ZonePool[i].id : i \in DOMAIN ZonePool}
        \cup {VoidEntry.id, PorchEntry.id, AtticEntry.id, MalformedEntry.id}

(* The sequences of distinct pool indexes of length at most n *)
RECURSIVE IndexSeqs(_)
IndexSeqs(n) ==
    IF n = 0 THEN {<<>>}
    ELSE LET shorter == IndexSeqs(n - 1)
         IN shorter \cup {Append(s, i) : s \in {t \in shorter : Len(t) = n - 1},
                                        i \in DOMAIN ZonePool}

DistinctIndexSeqs ==
    {s \in IndexSeqs(MaxZones) : \A i, j \in DOMAIN s : i # j => s[i] # s[j]}

PoolConfigs ==
    {[zones |-> [i \in DOMAIN s |-> ZonePool[s[i]]]] : s \in DistinctIndexSeqs}

SpecialConfigs ==
    { [zones |-> <<VoidEntry>>],
      [zones |-> <<VoidEntry, ZonePool[1]>>],
      [zones |-> <<ZonePool[3], VoidEntry>>],
      [zones |-> <<PorchEntry>>],
      [zones |-> <<PorchEntry, ZonePool[1]>>],
      [zones |-> <<ZonePool[2], PorchEntry>>],
      [zones |-> <<AtticEntry>>] }

WellFormedConfigs == PoolConfigs \cup SpecialConfigs

MalformedConfigs ==
    { NullValue,
      [version |-> 1],
      [zones |-> <<MalformedEntry>>],
      [zones |-> <<ZonePool[1], MalformedEntry>>] }

Configs == WellFormedConfigs \cup MalformedConfigs

----------------------------------------------------------------------------
(* EffectZoneManager *)

Has(obj, field) == field \in DOMAIN obj

IsNull(v) == Has(v, "null")

(* new THREE.Vector3(...array) *)
Vector3(a) == Vec(a[1], a[2], a[3])

(* loadConfig's guard: !config || !config.zones *)
NoZonesInConfig(config) == IsNull(config) \/ ~Has(config, "zones")

(* The entries on which the map callback of loadConfig throws: it reads
   zoneConfig.bounds.min and zoneConfig.bounds.max unconditionally *)
EntryThrows(zoneConfig) ==
    \/ ~Has(zoneConfig, "bounds")
    \/ ~Has(zoneConfig.bounds, "min")
    \/ ~Has(zoneConfig.bounds, "max")

(* zoneConfig.type is undefined, null or '' *)
TypeIsFalsy(zoneConfig) == ~Has(zoneConfig, "type") \/ zoneConfig.type = ""

(* zoneConfig.effects is undefined or null *)
EffectsAreFalsy(zoneConfig) == ~Has(zoneConfig, "effects") \/ IsNull(zoneConfig.effects)

(* A faulty variant of BuildZone: the type is taken as it is *)
BuildZoneTypeAsIs(zoneConfig) ==
    [id      |-> zoneConfig.id,
     type    |-> IF Has(zoneConfig, "type") THEN zoneConfig.type ELSE "undefined",
     bounds  |-> [min |-> Vector3(zoneConfig.bounds.min),
                  max |-> Vector3(zoneConfig.bounds.max)],
     effects |-> IF EffectsAreFalsy(zoneConfig) THEN NoEffects ELSE zoneConfig.effects]

(* The map callback of loadConfig: zoneConfig.type || 'box' and
   zoneConfig.effects || {} *)
BuildZone(zoneConfig) ==
    [id      |-> zoneConfig.id,
     type    |-> IF TypeIsFalsy(zoneConfig) THEN "box" ELSE zoneConfig.type,
     bounds  |-> [min |-> Vector3(zoneConfig.bounds.min),
                  max |-> Vector3(zoneConfig.bounds.max)],
     effects |-> IF EffectsAreFalsy(zoneConfig) THEN NoEffects ELSE zoneConfig.effects]

DistSq(p, q) ==
    (p.x - q.x) * (p.x - q.x) + (p.y - q.y) * (p.y - q.y) + (p.z - q.z) * (p.z - q.z)

(* A faulty variant of WithinRadius: the distance is taken axis by axis *)
WithinRadiusPerAxis(point, center, radius) ==
    /\ point.x - center.x <= radius /\ center.x - point.x <= radius
    /\ point.y - center.y <= radius /\ center.y - point.y <= radius
    /\ point.z - center.z <= radius /\ center.z - point.z <= radius

(* point.distanceTo(center) <= radius, on integers *)
WithinRadius(point, center, radius) ==
    radius >= 0 /\ DistSq(point, center) <= radius * radius

(* A faulty variant of isInsideZone: the upper faces of a box are outside *)
isInsideZoneOpenAbove(point, zone) ==
    IF zone.type = "box"
    THEN /\ point.x >= zone.bounds.min.x /\ point.x < zone.bounds.max.x
         /\ point.y >= zone.bounds.min.y /\ point.y < zone.bounds.max.y
         /\ point.z >= zone.bounds.min.z /\ point.z < zone.bounds.max.z
    ELSE IF zone.type = "sphere"
         THEN WithinRadius(point, zone.bounds.min, zone.bounds.max.x)
         ELSE FALSE

(* A faulty variant of isInsideZone: a zone that is no sphere is tested as
   a box, whatever its type *)
isInsideZoneUnknownAsBox(point, zone) ==
    IF zone.type = "sphere"
    THEN WithinRadius(point, zone.bounds.min, zone.bounds.max.x)
    ELSE /\ point.x >= zone.bounds.min.x /\ point.x <= zone.bounds.max.x
         /\ point.y >= zone.bounds.min.y /\ point.y <= zone.bounds.max.y
         /\ point.z >= zone.bounds.min.z /\ point.z <= zone.bounds.max.z

isInsideZone(point, zone) ==
    IF zone.type = "box"
    THEN /\ point.x >= zone.bounds.min.x /\ point.x <= zone.bounds.max.x
         /\ point.y >= zone.bounds.min.y /\ point.y <= zone.bounds.max.y
         /\ point.z >= zone.bounds.min.z /\ point.z <= zone.bounds.max.z
    ELSE IF zone.type = "sphere"
         THEN WithinRadius(point, zone.bounds.min, zone.bounds.max.x)
         ELSE FALSE

(* A faulty variant of loadConfig: the zones that contain the origin are
   taken for entered when the configuration is loaded *)
loadConfigSeedsMembership(oldZones, oldActive, config) ==
    IF NoZonesInConfig(config)
    THEN [zones |-> oldZones, active |-> oldActive, threw |-> FALSE]
    ELSE IF \E i \in DOMAIN config.zones : EntryThrows(config.zones[i])
         THEN [zones |-> oldZones, active |-> oldActive, threw |-> TRUE]
         ELSE LET built == [i \in DOMAIN config.zones |-> BuildZone(config.zones[i])]
              IN [zones |-> built,
                  active |-> {built[i].id : i \in {j \in DOMAIN built :
                                  isInsideZone(Vec(0, 0, 0), built[j])}},
                  threw |-> FALSE]

(* loadConfig(config): the zones and the active set afterwards (it does not
   touch this.activeZones, and calls no callback) and whether it threw *)
loadConfig(oldZones, oldActive, config) ==
    IF NoZonesInConfig(config)
    THEN [zones |-> oldZones, active |-> oldActive, threw |-> FALSE]
    ELSE IF \E i \in DOMAIN config.zones : EntryThrows(config.zones[i])
         THEN [zones |-> oldZones, active |-> oldActive, threw |-> TRUE]
         ELSE [zones |-> [i \in DOMAIN config.zones |-> BuildZone(config.zones[i])],
               active |-> oldActive,
               threw |-> FALSE]

(* zone.effects[effectName]?.enabled *)
EffectEnabled(zone, effectName) ==
    Has(zone.effects, effectName) /\ zone.effects[effectName].enabled

(* A faulty variant of getActiveZones: the latest of the registry first *)
getActiveZonesBackwards(zs, active) ==
    LET az == SelectSeq(zs, LAMBDA z : z.id \in active)
    IN [k \in DOMAIN az |-> az[Len(az) + 1 - k]]

(* this.zones.filter(z => this.activeZones.has(z.id)) *)
getActiveZones(zs, active) == SelectSeq(zs, LAMBDA z : z.id \in active)

(* Faulty variant of zoneFlickerIntensity: flickerAmount ?? 0.4 *)
zoneFlickerIntensityNullish(flickering) ==
    IF Has(flickering, "flickerAmount") THEN flickering.flickerAmount
    ELSE DefaultFlickerAmount

(* zone.effects.flickering.flickerAmount || 0.4 *)
zoneFlickerIntensity(flickering) ==
    IF Has(flickering, "flickerAmount") /\ flickering.flickerAmount # DZero
    THEN flickering.flickerAmount
    ELSE DefaultFlickerAmount

(* Faulty variant of FlickerScan: the intensities of overlapping zones add up *)
RECURSIVE FlickerScanSum(_, _, _)
FlickerScanSum(az, maxIntensity, config) ==
    IF az = <<>>
    THEN [active |-> DLess(DZero, maxIntensity), intensity |-> maxIntensity,
          config |-> config]
    ELSE LET zone == Head(az)
         IN IF EffectEnabled(zone, "flickering")
            THEN FlickerScanSum(Tail(az),
                                DAdd(maxIntensity,
                                     zoneFlickerIntensity(zone.effects.flickering)),
                                zone.effects.flickering)
            ELSE FlickerScanSum(Tail(az), maxIntensity, config)

RECURSIVE FlickerScan(_, _, _)
FlickerScan(az, maxIntensity, config) ==
    IF az = <<>>
    THEN [active |-> DLess(DZero, maxIntensity), intensity |-> maxIntensity,
          config |-> config]
    ELSE LET zone == Head(az)
         IN IF EffectEnabled(zone, "flickering")
            THEN LET intensity == zoneFlickerIntensity(zone.effects.flickering)
                 IN IF DLess(maxIntensity, intensity)
                    THEN FlickerScan(Tail(az), intensity, zone.effects.flickering)
                    ELSE FlickerScan(Tail(az), maxIntensity, config)
            ELSE FlickerScan(Tail(az), maxIntensity, config)

(* Faulty variant of getFlickerState: every zone is scanned, active or not *)
getFlickerStateAllZones(zs, active) == FlickerScan(zs, DZero, NullValue)

getFlickerState(zs, active) == FlickerScan(getActiveZones(zs, active), DZero, NullValue)

(* A faulty variant of getActiveEffect: the last match is returned *)
getActiveEffectLast(zs, active, effectName) ==
    LET hits == SelectSeq(getActiveZones(zs, active),
                          LAMBDA z : EffectEnabled(z, effectName))
    IN IF hits = <<>> THEN NullValue
       ELSE [zone |-> hits[Len(hits)], config |-> hits[Len(hits)].effects[effectName]]

(* getActiveEffect(effectName): { zone, config } of the first match, or null *)
getActiveEffect(zs, active, effectName) ==
    LET hits == SelectSeq(getActiveZones(zs, active),
                          LAMBDA z : EffectEnabled(z, effectName))
    IN IF hits = <<>> THEN NullValue
       ELSE [zone |-> Head(hits), config |-> Head(hits).effects[effectName]]

(* A faulty variant of getFloatingLightZones: overlapping zones are resolved
   to the first of them *)
getFloatingLightZonesFirstOnly(zs, active) ==
    LET hit == getActiveEffect(zs, active, "floatingLights")
    IN IF hit = NullValue THEN <<>> ELSE <<hit>>

getFloatingLightZones(zs, active) ==
    LET hits == SelectSeq(getActiveZones(zs, active),
                          LAMBDA z : EffectEnabled(z, "floatingLights"))
    IN [i \in DOMAIN hits |->
          [zone |-> hits[i], config |-> hits[i].effects.floatingLights]]

----------------------------------------------------------------------------
(* What a frame does, in order: records [op |-> ..., id |-> ...] *)

Ev(op, id) == [op |-> op, id |-> id]

FrameId == "frame"

----------------------------------------------------------------------------
(* FloatingLightsManager.  A frame's working state is a record m with the
   fields zones, activeZones, lightZones, sdfs, meshes, disposed, target,
   amountVal, log, lastEvent, thrown. *)

(* A handle of a newly constructed object: one no registered object has *)
FreshHandle(used) == CHOOSE h \in 1..(Cardinality(used) + 1) : h \notin used

RECURSIVE SpawnParticles(_, _, _, _)
SpawnParticles(n, particles, sdfs, meshes) ==
    IF n <= 0
    THEN [particles |-> particles, sdfs |-> sdfs, meshes |-> meshes]
    ELSE LET sdf == FreshHandle(sdfs)
             sphereMesh == FreshHandle(meshes)
         IN SpawnParticles(n - 1,
                           Append(particles, [sdf |-> sdf, sphere |-> sphereMesh]),
                           sdfs \cup {sdf}, meshes \cup {sphereMesh})

(* The group spawnForZone stores for a zone *)
ZoneData(made, bounds, config) ==
    [particles  |-> made.particles,
     sdfs       |-> [i \in DOMAIN made.particles |-> made.particles[i].sdf],
     bounds     |-> [min |-> bounds.min, max |-> bounds.max],
     config     |-> config,
     colorValue |-> IF Has(config, "color") THEN config.color ELSE DefaultColor]

(* this.activeZones.set(zoneId, zoneData), with what the loop registered *)
StoreGroup(m, zoneId, made, zoneData) ==
    [m EXCEPT !.lightZones = [k \in DOMAIN m.lightZones \cup {zoneId} |->
                                 IF k = zoneId THEN zoneData ELSE m.lightZones[k]],
              !.sdfs = made.sdfs,
              !.meshes = made.meshes,
              !.log = Append(m.log, Ev("spawn", zoneId))]

(* A faulty variant of spawnForZone: no check for a group that is live *)
spawnForZoneAlways(m, zoneId, bounds, config, faults) ==
    LET count == IF Has(config, "count") THEN config.count ELSE DefaultCount
        made == SpawnParticles(count, <<>>, m.sdfs, m.meshes)
    IN StoreGroup(m, zoneId, made, ZoneData(made, bounds, config))

(* A faulty variant of spawnForZone: the loop runs while i <= count *)
spawnForZoneOneMore(m, zoneId, bounds, config, faults) ==
    IF zoneId \in DOMAIN m.lightZones
    THEN m
    ELSE LET count == IF Has(config, "count") THEN config.count ELSE DefaultCount
             made == SpawnParticles(count + 1, <<>>, m.sdfs, m.meshes)
         IN StoreGroup(m, zoneId, made, ZoneData(made, bounds, config))

(* A faulty variant of spawnForZone: the count in use is written into
   config, which is the floatingLights object of the zone in the registry *)
spawnForZoneWritesCount(m, zoneId, bounds, config, faults) ==
    IF zoneId \in DOMAIN m.lightZones
    THEN m
    ELSE LET count == IF Has(config, "count") THEN config.count ELSE DefaultCount
             made == SpawnParticles(count, <<>>, m.sdfs, m.meshes)
             written == [k \in DOMAIN config \cup {"count"} |->
                            IF k = "count" THEN count ELSE config[k]]
             stored == StoreGroup(m, zoneId, made, ZoneData(made, bounds, written))
         IN [stored EXCEPT !.zones =
                [i \in DOMAIN m.zones |->
                    IF m.zones[i].id = zoneId
                    THEN [m.zones[i] EXCEPT !.effects.floatingLights = written]
                    ELSE m.zones[i]]]

(* spawnForZone(zoneId, bounds, config); the visual interface fails for the
   zone ids of faults *)
spawnForZone(m, zoneId, bounds, config, faults) ==
    IF zoneId \in DOMAIN m.lightZones
    THEN m
    ELSE IF zoneId \in faults
    THEN [m EXCEPT !.thrown = TRUE]
    ELSE LET count == IF Has(config, "count") THEN config.count ELSE DefaultCount
             made == SpawnParticles(count, <<>>, m.sdfs, m.meshes)
         IN StoreGroup(m, zoneId, made, ZoneData(made, bounds, config))

(* A faulty variant of removeForZone: the meshes stay in the scene *)
removeForZoneKeepsMeshes(m, zoneId) ==
    IF zoneId \notin DOMAIN m.lightZones
    THEN m
    ELSE LET ps == m.lightZones[zoneId].particles
         IN [m EXCEPT !.sdfs = m.sdfs \ {ps[i].sdf : i \in DOMAIN ps},
                      !.lightZones = [k \in DOMAIN m.lightZones \ {zoneId} |-> m.lightZones[k]],
                      !.log = Append(m.log, Ev("despawn", zoneId))]

(* A faulty variant of removeForZone: the group is not deleted from the map *)
removeForZoneKeepsGroup(m, zoneId) ==
    IF zoneId \notin DOMAIN m.lightZones
    THEN m
    ELSE LET ps == m.lightZones[zoneId].particles
         IN [m EXCEPT !.sdfs = m.sdfs \ {ps[i].sdf : i \in DOMAIN ps},
                      !.meshes = m.meshes \ {ps[i].sphere : i \in DOMAIN ps},
                      !.disposed = m.disposed \/ ps # <<>>,
                      !.log = Append(m.log, Ev("despawn", zoneId))]

removeForZone(m, zoneId) ==
    IF zoneId \notin DOMAIN m.lightZones
    THEN m
    ELSE LET zoneData == m.lightZones[zoneId]
             ps == zoneData.particles
         IN [m EXCEPT !.sdfs = m.sdfs \ {ps[i].sdf : i \in DOMAIN ps},
                      !.meshes = m.meshes \ {ps[i].sphere : i \in DOMAIN ps},
                      !.disposed = m.disposed \/ ps # <<>>,
                      !.lightZones = [k \in DOMAIN m.lightZones \ {zoneId} |-> m.lightZones[k]],
                      !.log = Append(m.log, Ev("despawn", zoneId))]

(* for (const zoneId of this.activeZones.keys()) this.removeForZone(zoneId):
   the iterator of a Map is live, and removeForZone deletes only the key
   being visited, so every key is visited *)
RECURSIVE RemoveEach(_, _)
RemoveEach(m, ids) ==
    IF ids = {}
    THEN m
    ELSE LET zoneId == CHOOSE id \in ids : TRUE
         IN RemoveEach(removeForZone(m, zoneId), ids \ {zoneId})

(* A faulty variant of removeAll: the loop ends after the first key *)
removeAllFirstOnly(m) ==
    IF DOMAIN m.lightZones = {}
    THEN m
    ELSE removeForZone(m, CHOOSE id \in DOMAIN m.lightZones : TRUE)

removeAll(m) == RemoveEach(m, DOMAIN m.lightZones)

----------------------------------------------------------------------------
(* The host's callbacks (main.js) *)

(* flickerControls.updateFromConfig(config): the flickerAmount it leaves *)
updateFromConfig(amountVal, config) ==
    IF Has(config, "flickerAmount") THEN config.flickerAmount ELSE amountVal

(* const flickerState = getFlickerState(); targetFlickerIntensity = ...;
   if (flickerState.config && flickerControls) updateFromConfig(...) *)
RetargetFlicker(m, zs, zone) ==
    LET flickerState == getFlickerState(zs, m.activeZones)
    IN [m EXCEPT !.target = flickerState.intensity,
                 !.amountVal = IF IsNull(flickerState.config) THEN m.amountVal
                               ELSE updateFromConfig(m.amountVal, flickerState.config),
                 !.log = Append(m.log, Ev("aggregate", zone.id))]

(* Faulty variant of onEnterCallback: aggregation first, then the spawn *)
onEnterAggregatesFirst(m, zs, zone, faults) ==
    LET m1 == RetargetFlicker(m, zs, zone)
    IN IF EffectEnabled(zone, "floatingLights")
       THEN spawnForZone(m1, zone.id, zone.bounds, zone.effects.floatingLights, faults)
       ELSE m1

onEnterCallback(m, zs, zone, faults) ==
    LET m1 == IF EffectEnabled(zone, "floatingLights")
              THEN spawnForZone(m, zone.id, zone.bounds, zone.effects.floatingLights, faults)
              ELSE m
    IN IF m1.thrown THEN m1 ELSE RetargetFlicker(m1, zs, zone)

(* A faulty variant of onExitCallback: the target is left as it was *)
onExitKeepsTarget(m, zs, zone) ==
    IF EffectEnabled(zone, "floatingLights")
    THEN removeForZone(m, zone.id)
    ELSE m

(* Faulty variant of onExitCallback: the lights of the zone are not removed *)
onExitKeepsLights(m, zs, zone) == RetargetFlicker(m, zs, zone)

onExitCallback(m, zs, zone) ==
    LET m1 == IF EffectEnabled(zone, "floatingLights")
              THEN removeForZone(m, zone.id)
              ELSE m
    IN RetargetFlicker(m1, zs, zone)

----------------------------------------------------------------------------
(* EffectZoneManager.update *)

(* Faulty variants of WasInside: the previous membership is not consulted *)
WasInsideNever(active, zone) == FALSE

(* A faulty variant of WasInside: an empty active set is taken to mean that
   the membership is not known yet, and nothing is entered *)
WasInsideAtStart(active, zone) == active = {} \/ zone.id \in active

WasInsideAlways(active, zone) == TRUE

(* const wasInside = this.activeZones.has(zone.id) *)
WasInside(active, zone) == zone.id \in active

(* One iteration of the loop of update, for one zone *)
UpdateZone(m, zs, zone, point, faults) ==
    LET wasInside == WasInside(m.activeZones, zone)
        isInside == isInsideZone(point, zone)
        m0 == [m EXCEPT !.log = Append(m.log, Ev("evaluate", zone.id))]
    IN IF isInside /\ ~wasInside
       THEN onEnterCallback(
                [m0 EXCEPT !.activeZones = m0.activeZones \cup {zone.id},
                           !.lastEvent = [m0.lastEvent EXCEPT ![zone.id] = "enter"],
                           !.log = m0.log \o <<Ev("add", zone.id), Ev("enter", zone.id)>>],
                zs, zone, faults)
       ELSE IF ~isInside /\ wasInside
       THEN onExitCallback(
                [m0 EXCEPT !.activeZones = m0.activeZones \ {zone.id},
                           !.lastEvent = [m0.lastEvent EXCEPT ![zone.id] = "exit"],
                           !.log = m0.log \o <<Ev("delete", zone.id), Ev("exit", zone.id)>>],
                zs, zone)
       ELSE m0

(* for (const zone of this.zones) ...: an exception ends the loop.  The
   zone visualization that update repaints afterwards is a debug view over
   zones and activeZones; it writes neither and is left out. *)
RECURSIVE UpdateLoop(_, _, _, _, _)
UpdateLoop(m, zs, rest, point, faults) ==
    IF rest = <<>> \/ m.thrown
    THEN m
    ELSE UpdateLoop(UpdateZone(m, zs, Head(rest), point, faults), zs, Tail(rest),
                    point, faults)

(* A faulty variant of update: the zones are visited last to first *)
updateBackwards(m, zs, point, faults) ==
    UpdateLoop(m, zs, [i \in DOMAIN zs |-> zs[Len(zs) + 1 - i]], point, faults)

update(m, zs, point, faults) == UpdateLoop(m, zs, zs, point, faults)

----------------------------------------------------------------------------
(* The per-frame callback animate (main.js) *)

(* FLICKER_FADE_SPEED * deltaTime *)
FadeStep == DTimes(FLICKER_FADE_SPEED, deltaTime)

----------------------------------------------------------------------------
(* audio.js.  A source whose triggerRadius is null has no triggerRadius
   field here; isPlaying is the flag of the THREE.PositionalAudio, which
   play() sets and pause() and the end of a buffer that does not loop clear.
   heard lists the calls of play() the proximity check made for the source,
   each with where the listener was and whether audio was enabled. *)

(* The entries of audio-config.json *)
AudioPool == <<
    [audio_url |-> "ambience", audio_position |-> <<0, 0, 0>>],
    [audio_url |-> "voice", audio_position |-> <<2, 0, 0>>,
     falloff |-> [loop |-> FALSE], triggerRadius |-> 1],
    [audio_url |-> "chime", audio_position |-> <<0, 0, 0>>,
     falloff |-> [loop |-> FALSE], triggerRadius |-> 0] >>

AudioUrls == {AudioPool[i].audio_url : i \in DOMAIN AudioPool}

AudioEntry(url) == CHOOSE entry \in {AudioPool[i] : i \in DOMAIN AudioPool} :
                       entry.audio_url = url

(* The record the load callback pushes onto spatialAudioSources *)
AudioSource(entry) ==
    LET options == IF Has(entry, "falloff") THEN entry.falloff ELSE NoEffects
        source == [url |-> entry.audio_url,
                   loop |-> IF Has(options, "loop") THEN options.loop ELSE TRUE,
                   triggered |-> FALSE,
                   position |-> Vector3(entry.audio_position),
                   isPlaying |-> FALSE,
                   heard |-> <<>>]
    IN IF Has(entry, "triggerRadius")
       THEN [f \in DOMAIN source \cup {"triggerRadius"} |->
                IF f = "triggerRadius" THEN entry.triggerRadius ELSE source[f]]
       ELSE source

(* source.triggerRadius as a condition: null and 0 are falsy *)
HasTriggerRadius(source) == Has(source, "triggerRadius") /\ source.triggerRadius # 0

(* The load callback of addSpatialAudioSource for the source at url; the
   promise of initializeAudio resolves with the last of the loads *)
loadCallback(a, url) ==
    [a EXCEPT !.sources = Append(@, AudioSource(AudioEntry(url))),
              !.pending = @ \ {url},
              !.returned = @ \/ a.pending = {url}]

(* The error callback: Promise.all rejects and initializeAudio returns *)
errorCallback(a, url) ==
    [a EXCEPT !.pending = @ \ {url}, !.returned = TRUE]

(* toggleAudio() *)
toggleAudio(a) ==
    IF ~a.enabled
    THEN [a EXCEPT !.enabled = TRUE,
                   !.sources = [i \in DOMAIN @ |->
                       IF @[i].loop /\ ~@[i].isPlaying
                       THEN [@[i] EXCEPT !.isPlaying = TRUE]
                       ELSE @[i]]]
    ELSE [a EXCEPT !.enabled = FALSE,
                   !.sources = [i \in DOMAIN @ |-> [@[i] EXCEPT !.isPlaying = FALSE]]]

(* A faulty variant of checkProximityTriggers: triggered is never set *)
checkProximityTriggersAgain(a, listenerPosition) ==
    IF ~a.enabled THEN a
    ELSE [a EXCEPT !.sources = [i \in DOMAIN @ |->
             IF /\ ~@[i].loop /\ HasTriggerRadius(@[i]) /\ ~@[i].triggered
                /\ WithinRadius(listenerPosition, @[i].position, @[i].triggerRadius)
             THEN [@[i] EXCEPT !.isPlaying = TRUE,
                               !.heard = Append(@, [at |-> listenerPosition,
                                                    enabled |-> a.enabled])]
             ELSE @[i]]]

(* checkProximityTriggers(listenerPosition) *)
checkProximityTriggers(a, listenerPosition) ==
    IF ~a.enabled THEN a
    ELSE [a EXCEPT !.sources = [i \in DOMAIN @ |->
             IF /\ ~@[i].loop /\ HasTriggerRadius(@[i]) /\ ~@[i].triggered
                /\ WithinRadius(listenerPosition, @[i].position, @[i].triggerRadius)
             THEN [@[i] EXCEPT !.isPlaying = TRUE, !.triggered = TRUE,
                               !.heard = Append(@, [at |-> listenerPosition,
                                                    enabled |-> a.enabled])]
             ELSE @[i]]]

----------------------------------------------------------------------------
(* main.js: camera tracking.  camera.position is relative to localFrame,
   which is not rotated here; the controls move the camera outside VR and
   leave localFrame where it is in VR.  xrFrames counts the frames of the
   session, sessions the sessions started, and shifted tells whether the
   last frame moved localFrame to compensate a discontinuity. *)

VR_ENTRY_GRACE_PERIOD == 10

MaxSessions == 2   \* VR sessions started in a run
MaxXrFrames == 12  \* frames of a session that are counted

(* lastCameraPos.distanceTo(camera.position) > 0.5, on integers *)
Discontinuity(from, to) == 4 * DistSq(from, to) > 1

(* The two branches of animate on renderer.xr.isPresenting *)
TrackCamera(x, position) ==
    IF x.isPresenting
    THEN LET count == IF x.vrEntryFrameCount < VR_ENTRY_GRACE_PERIOD
                      THEN x.vrEntryFrameCount + 1
                      ELSE x.vrEntryFrameCount
             shift == /\ count >= VR_ENTRY_GRACE_PERIOD
                      /\ Discontinuity(x.lastCameraPos, position)
         IN [x EXCEPT !.vrEntryFrameCount = count,
                      !.camera = position,
                      !.localFrame = IF shift
                                     THEN Vec(-position.x, -position.y, -position.z)
                                     ELSE @,
                      !.lastCameraPos = position,
                      !.xrFrames = IF @ < MaxXrFrames THEN @ + 1 ELSE @,
                      !.shifted = shift]
    ELSE [x EXCEPT !.camera = position, !.lastCameraPos = position,
                   !.shifted = FALSE]

(* camera.getWorldPosition(cameraWorldPos) *)
getWorldPosition(x) ==
    Vec(x.localFrame.x + x.camera.x, x.localFrame.y + x.camera.y,
        x.localFrame.z + x.camera.z)

(* The sessionstart listener *)
sessionstart(x) ==
    [x EXCEPT !.isPresenting = TRUE,
              !.localFrame = Vec(@.x + x.camera.x, @.y + x.camera.y, @.z + x.camera.z),
              !.vrEntryFrameCount = 0,
              !.sessions = @ + 1,
              !.xrFrames = 0,
              !.shifted = FALSE]

(* A faulty variant of RampStep: the step is not clamped at the target *)
RampStepUnclamped(current, target) ==
    IF DLess(current, target) THEN DAdd(current, FadeStep)
    ELSE IF DLess(target, current) THEN DSub(current, FadeStep)
    ELSE current

(* The ramp: one step of currentFlickerIntensity toward the target *)
RampStep(current, target) ==
    IF DLess(current, target) THEN DMin(target, DAdd(current, FadeStep))
    ELSE IF DLess(target, current) THEN DMax(target, DSub(current, FadeStep))
    ELSE current

FrameStart ==
    [zones |-> zones,
     activeZones |-> activeZones, lightZones |-> lightZones, sdfs |-> splatEditSdfs,
     meshes |-> sceneMeshes, disposed |-> geometryDisposed,
     target |-> targetFlickerIntensity, amountVal |-> flickerAmountVal,
     log |-> <<>>, lastEvent |-> lastEvent, thrown |-> FALSE]

(* One call of animate with camera.position at position, where the controls
   or the headset put it.  When update throws, the
   exception leaves animate: nothing after update runs in this frame, and
   whether the host's loop schedules another frame is up to the renderer. *)
Frame(position, faults) ==
    /\ phase = "running"
    /\ audio.returned
    /\ LET x == TrackCamera(xr, position)
           point == getWorldPosition(x)
           m == update(FrameStart, zones, point, faults)
       IN /\ xr' = x
          /\ audio' = checkProximityTriggers(audio, point)
          /\ zones' = m.zones
          /\ activeZones' = m.activeZones
          /\ lightZones' = m.lightZones
          /\ splatEditSdfs' = m.sdfs
          /\ sceneMeshes' = m.meshes
          /\ geometryDisposed' = m.disposed
          /\ targetFlickerIntensity' = m.target
          /\ flickerAmountVal' = m.amountVal
          /\ lastEvent' = m.lastEvent
          /\ cameraWorldPos' = point
          /\ IF m.thrown
             THEN /\ frameLog' = Append(m.log, Ev("throw", FrameId))
                  /\ UNCHANGED <<currentFlickerIntensity, intensityVal>>
                  /\ phase' \in {"running", "halted"}
             ELSE LET current == RampStep(currentFlickerIntensity, m.target)
                  IN /\ currentFlickerIntensity' = current
                     /\ intensityVal' = current
                     /\ frameLog' = m.log \o <<Ev("advance", FrameId), Ev("ramp", FrameId),
                                               Ev("render", FrameId)>>
                     /\ phase' = "running"
    /\ UNCHANGED <<loadThrew, rampStart, rampSteps, calls, effectsConfig, loads,
                   probe, swarm>>

(* A frame in which the visual interface works *)
Animate == \E position \in Positions : Frame(position, {})

(* A frame in which the visual interface fails when lights are spawned *)
AnimateFault == \E position \in Positions : Frame(position, ZoneIds)

(* effectZoneManager.loadConfig(config), called in the phase before with a
   document of configs: an exception ends the caller's code, and no frame
   runs afterwards *)
Load(before, configs) ==
    /\ phase = before
    /\ \E config \in configs :
         LET r == loadConfig(zones, activeZones, config)
         IN /\ zones' = r.zones
            /\ activeZones' = r.active
            /\ loadThrew' = r.threw
            /\ phase' = IF r.threw THEN "halted" ELSE "running"
            /\ effectsConfig' = config
    /\ loads' = loads + 1
    /\ UNCHANGED <<lightZones, splatEditSdfs, sceneMeshes, geometryDisposed,
                   targetFlickerIntensity, currentFlickerIntensity, intensityVal,
                   flickerAmountVal, cameraWorldPos, frameLog, lastEvent,
                   rampStart, rampSteps, calls, probe, xr, audio, swarm>>

(* effectZoneManager.loadConfig(effectsConfig) at start-up, before the loop *)
LoadConfig == Load("constructed", Configs)

Init ==
    /\ phase = "constructed"
    /\ zones = <<>>
    /\ activeZones = {}
    /\ loadThrew = FALSE
    /\ lightZones = [k \in {} |-> NullValue]
    /\ splatEditSdfs = {}
    /\ sceneMeshes = {}
    /\ geometryDisposed = FALSE
    /\ targetFlickerIntensity = DZero
    /\ currentFlickerIntensity = DZero
    /\ intensityVal = DZero
    /\ flickerAmountVal = InitialFlickerAmount
    /\ cameraWorldPos = Vec(0, 0, 0)
    /\ frameLog = <<>>
    /\ lastEvent = [id \in ZoneIds |-> "none"]
    /\ rampStart = DZero
    /\ rampSteps = 0
    /\ calls = <<>>
    /\ effectsConfig = NullValue
    /\ loads = 0
    /\ probe = NoProbe
    /\ audio = NoAudio
    /\ xr = NoSession
    /\ swarm = NoSwarm

Next == LoadConfig \/ Animate

Spec == Init /\ [][Next]_vars

NextFault == LoadConfig \/ Animate \/ AnimateFault

SpecFault == Init /\ [][NextFault]_vars

----------------------------------------------------------------------------
(* A host that re-initializes the zones: it calls loadConfig again on the
   EffectZoneManager it has, between two frames *)

MaxLoads == 2   \* calls of loadConfig in a run

ReloadConfigs ==
    { [zones |-> <<ZonePool[1], ZonePool[2]>>],
      [zones |-> <<ZonePool[3]>>],
      [zones |-> <<>>],
      NullValue }

LoadFirst == Load("constructed", ReloadConfigs)

LoadAgain == loads < MaxLoads /\ Load("running", ReloadConfigs)

NextReload == LoadFirst \/ Animate \/ LoadAgain

SpecReload == Init /\ [][NextReload]_vars

(* ------------------------------------------------------------------ *)
(* The host with its animation loop running for good: the renderer     *)
(* calls animate again for every display frame (setAnimationLoop), so  *)
(* a frame that can run does run.                                      *)
(* ------------------------------------------------------------------ *)
NextLoop == LoadFirst \/ Animate

(* The loop is started and was not ended by an exception: the guard of Frame *)
FrameDue == phase = "running"

(* Weak fairness of the frame, WF_vars(Animate), written out: a frame with
   the camera at another position changes the state, so <<Animate>>_vars is
   enabled exactly when FrameDue holds *)
LoopFairness == []<>(~FrameDue) \/ []<><<Animate>>_vars

SpecLoop == Init /\ [][NextLoop]_vars /\ LoopFairness

----------------------------------------------------------------------------
(* The host with a configuration that has no zones, at the point where
   loadConfig has returned: what remains is audio and camera tracking. *)

hostVars == <<phase, zones, activeZones, loadThrew, lightZones, splatEditSdfs,
              sceneMeshes, geometryDisposed, targetFlickerIntensity,
              currentFlickerIntensity, intensityVal, flickerAmountVal,
              cameraWorldPos, frameLog, lastEvent, rampStart, rampSteps, calls,
              effectsConfig, loads, probe>>

HostStarted ==
    /\ phase = "running"
    /\ zones = <<>>
    /\ activeZones = {}
    /\ loadThrew = FALSE
    /\ lightZones = [k \in {} |-> NullValue]
    /\ splatEditSdfs = {}
    /\ sceneMeshes = {}
    /\ geometryDisposed = FALSE
    /\ targetFlickerIntensity = DZero
    /\ currentFlickerIntensity = DZero
    /\ intensityVal = DZero
    /\ flickerAmountVal = InitialFlickerAmount
    /\ cameraWorldPos = Vec(0, 0, 0)
    /\ frameLog = <<>>
    /\ lastEvent = [id \in ZoneIds |-> "none"]
    /\ rampStart = DZero
    /\ rampSteps = 0
    /\ calls = <<>>
    /\ effectsConfig = [zones |-> <<>>]
    /\ loads = 1
    /\ probe = NoProbe

(* Audio: initializeAudio has requested the sources of audio-config.json and
   awaits them; the loads end in any order, the click listener of the toggle
   button is in place from the start, and the animation loop starts when
   initializeAudio has returned. *)
InitAudio ==
    /\ HostStarted
    /\ audio = [enabled |-> FALSE, returned |-> FALSE, pending |-> AudioUrls,
                sources |-> <<>>]
    /\ xr = NoSession
    /\ swarm = NoSwarm

LoadCompletes ==
    /\ \E url \in audio.pending : audio' = loadCallback(audio, url)
    /\ UNCHANGED <<hostVars, xr, swarm>>

LoadFails ==
    /\ \E url \in audio.pending : audio' = errorCallback(audio, url)
    /\ UNCHANGED <<hostVars, xr, swarm>>

(* A click on the audio toggle button *)
ToggleAudio ==
    /\ audio' = toggleAudio(audio)
    /\ UNCHANGED <<hostVars, xr, swarm>>

(* The buffer of a playing source that does not loop ends *)
PlaybackEnds ==
    /\ \E i \in DOMAIN audio.sources :
          /\ audio.sources[i].isPlaying
          /\ ~audio.sources[i].loop
          /\ audio' = [audio EXCEPT !.sources[i].isPlaying = FALSE]
    /\ UNCHANGED <<hostVars, xr, swarm>>

NextAudio == LoadCompletes \/ LoadFails \/ ToggleAudio \/ PlaybackEnds \/ Animate

SpecAudio == InitAudio /\ [][NextAudio]_vars

(* VR: sessions start and end between frames; in a session the headset
   puts camera.position anywhere, outside the controls do *)
InitVR ==
    /\ HostStarted
    /\ audio = NoAudio
    /\ xr = NoSession
    /\ swarm = NoSwarm

SessionStart ==
    /\ ~xr.isPresenting
    /\ xr.sessions < MaxSessions
    /\ xr' = sessionstart(xr)
    /\ UNCHANGED <<hostVars, audio, swarm>>

SessionEnd ==
    /\ xr.isPresenting
    /\ xr' = [xr EXCEPT !.isPresenting = FALSE]
    /\ UNCHANGED <<hostVars, audio, swarm>>

NextVR == SessionStart \/ SessionEnd \/ Animate

SpecVR == InitVR /\ [][NextVR]_vars

----------------------------------------------------------------------------
(* The motion of the particles of one group.  lightZones follows the handles
   of the particles; swarm follows what spawnForZone and updateParticles
   compute for them.  Coordinates are integers; the zones configure a speed
   of 400, so that the drift of one update, velocity * 0.01, takes the whole
   numbers from -2 up to but not including 2 (half that on y).  A random
   number is any value of the grid that Math.random(), which is below 1,
   can give.  shown is what the sdf and the mesh display: the base position
   and, once update has run, the arguments of the sine waves added to it.
   Each particle remembers what it was spawned with and where the drift of
   the last update took it before the wrap. *)

SwarmLights == [enabled |-> TRUE, count |-> 1, speed |-> 400]

SwarmEntries ==
    { [id |-> "glade", type |-> "box",
       bounds |-> [min |-> <<1, -1, 0>>, max |-> <<3, 0, 1>>],
       effects |-> [floatingLights |-> SwarmLights]],
      [id |-> "orb", type |-> "sphere",
       bounds |-> [min |-> <<4, 0, 0>>, max |-> <<1, 0, 0>>],
       effects |-> [floatingLights |-> SwarmLights]],
      [id |-> "bubble", type |-> "sphere",
       bounds |-> [min |-> <<0, 0, 0>>, max |-> <<2, 0, 0>>],
       effects |-> [floatingLights |-> SwarmLights]] }

SwarmZones == {BuildZone(zoneConfig) : zoneConfig \in SwarmEntries}

(* The values of the clock that animate passes on, in milliseconds *)
FrameTimes == {16, 33}

(* lower + Math.random() * (upper - lower) *)
RandomBetween(lower, upper) ==
    IF lower < upper THEN lower .. (upper - 1)
    ELSE IF upper < lower THEN (upper + 1) .. lower
    ELSE {lower}

(* (Math.random() - 0.5) * speed, where it makes a drift of a whole number *)
RandomVelocity(speed) ==
    {v \in (0 - speed \div 2) .. (speed \div 2 - 1) : v % 100 = 0}

(* Math.random() * Math.PI * 2, in quarter turns, and Math.random() * 1000 *)
RandomPhases == {0, 1}
RandomOffsets == {0, 500}

(* The particles one pass of the loop of spawnForZone can make *)
SpawnedParticles(bounds, config) ==
    LET speed == IF Has(config, "speed") THEN config.speed ELSE 0
    IN { [basePosition |-> Vec(px, py, pz),
          velocity |-> Vec(vx, vy, vz),
          phase |-> ph,
          timeOffset |-> offset,
          shown |-> [base |-> Vec(px, py, pz), waves |-> <<>>],
          drifted |-> Vec(px, py, pz),
          spawnedWith |-> [velocity |-> Vec(vx, vy, vz), phase |-> ph,
                           timeOffset |-> offset]] :
          px \in RandomBetween(bounds.min.x, bounds.max.x),
          py \in RandomBetween(bounds.min.y, bounds.max.y),
          pz \in RandomBetween(bounds.min.z, bounds.max.z),
          vx \in RandomVelocity(speed),
          vy \in RandomVelocity(speed \div 2),
          vz \in RandomVelocity(speed),
          ph \in RandomPhases,
          offset \in RandomOffsets }

(* A faulty variant of Wrap: the coordinate is held at the bound it passed *)
WrapClamped(v, lower, upper) ==
    IF v < lower THEN lower ELSE IF v > upper THEN upper ELSE v

(* The two tests of updateParticles on one axis, one after the other *)
Wrap(v, lower, upper) ==
    LET a == IF v < lower THEN upper ELSE v
    IN IF a > upper THEN lower ELSE a

(* A faulty variant of updateParticle: a particle that wraps turns around *)
updateParticleTurns(particle, bounds, time) ==
    LET moved == Vec(particle.basePosition.x + particle.velocity.x \div 100,
                     particle.basePosition.y + particle.velocity.y \div 100,
                     particle.basePosition.z + particle.velocity.z \div 100)
        base == Vec(Wrap(moved.x, bounds.min.x, bounds.max.x),
                    Wrap(moved.y, bounds.min.y, bounds.max.y),
                    Wrap(moved.z, bounds.min.z, bounds.max.z))
    IN [particle EXCEPT
          !.basePosition = base,
          !.drifted = moved,
          !.velocity = IF base = moved THEN @ ELSE Vec(-@.x, -@.y, -@.z),
          !.shown = [base |-> base,
                     waves |-> <<time + particle.timeOffset, particle.phase>>]]

(* The callback of particles.forEach in updateParticles *)
updateParticle(particle, bounds, time) ==
    LET moved == Vec(particle.basePosition.x + particle.velocity.x \div 100,
                     particle.basePosition.y + particle.velocity.y \div 100,
                     particle.basePosition.z + particle.velocity.z \div 100)
        base == Vec(Wrap(moved.x, bounds.min.x, bounds.max.x),
                    Wrap(moved.y, bounds.min.y, bounds.max.y),
                    Wrap(moved.z, bounds.min.z, bounds.max.z))
    IN [particle EXCEPT
          !.basePosition = base,
          !.drifted = moved,
          !.shown = [base |-> base,
                     waves |-> <<time + particle.timeOffset, particle.phase>>]]

(* updateParticles(particles, bounds, time, colorValue) *)
updateParticles(particles, bounds, time) ==
    [i \in DOMAIN particles |-> updateParticle(particles[i], bounds, time)]

InitSwarm ==
    /\ HostStarted
    /\ audio = NoAudio
    /\ xr = NoSession
    /\ swarm = NoSwarm

(* The observer enters a zone with floating lights: spawnForZone(zone.id,
   zone.bounds, zone.effects.floatingLights) *)
SpawnGroup ==
    /\ ~swarm.spawned
    /\ \E zone \in SwarmZones :
          \E particle \in SpawnedParticles(zone.bounds, zone.effects.floatingLights) :
             swarm' = [spawned |-> TRUE, updated |-> FALSE, zone |-> zone,
                       bounds |-> zone.bounds, particles |-> <<particle>>]
    /\ UNCHANGED <<hostVars, audio, xr>>

(* floatingLightsManager.update(time) *)
UpdateGroup ==
    /\ swarm.spawned
    /\ \E time \in FrameTimes :
          swarm' = [swarm EXCEPT
                      !.updated = TRUE,
                      !.particles = updateParticles(@, swarm.bounds, time)]
    /\ UNCHANGED <<hostVars, audio, xr>>

(* The observer leaves the zone: removeForZone(zone.id) *)
RemoveGroup ==
    /\ swarm.spawned
    /\ swarm' = NoSwarm
    /\ UNCHANGED <<hostVars, audio, xr>>

NextSwarm == SpawnGroup \/ UpdateGroup \/ RemoveGroup

SpecSwarm == InitSwarm /\ [][NextSwarm]_vars

----------------------------------------------------------------------------
(* The ramp on its own: the ramp of animate applied frame after frame to a
   current value and a target that stays where it is *)

RampValues == {DZero, DRatio(1, 10), DRatio(4, 10), DOne}

InitRamp ==
    /\ phase = "halted"
    /\ zones = <<>>
    /\ activeZones = {}
    /\ loadThrew = FALSE
    /\ lightZones = [k \in {} |-> NullValue]
    /\ splatEditSdfs = {}
    /\ sceneMeshes = {}
    /\ geometryDisposed = FALSE
    /\ targetFlickerIntensity \in RampValues
    /\ currentFlickerIntensity \in RampValues
    /\ rampStart = currentFlickerIntensity
    /\ intensityVal = DZero
    /\ flickerAmountVal = InitialFlickerAmount
    /\ cameraWorldPos = Vec(0, 0, 0)
    /\ frameLog = <<>>
    /\ lastEvent = [id \in ZoneIds |-> "none"]
    /\ rampSteps = 0
    /\ calls = <<>>
    /\ effectsConfig = NullValue
    /\ loads = 0
    /\ probe = NoProbe
    /\ audio = NoAudio
    /\ xr = NoSession
    /\ swarm = NoSwarm

(* if (flickerControls) { ... ramp ...; setIntensity(currentFlickerIntensity) } *)
Ramp ==
    /\ rampSteps < MaxRampSteps
    /\ currentFlickerIntensity' = RampStep(currentFlickerIntensity, targetFlickerIntensity)
    /\ intensityVal' = currentFlickerIntensity'
    /\ rampSteps' = rampSteps + 1
    /\ UNCHANGED <<phase, zones, activeZones, loadThrew, lightZones, splatEditSdfs,
                   sceneMeshes, geometryDisposed, targetFlickerIntensity,
                   flickerAmountVal, cameraWorldPos, frameLog, lastEvent, rampStart,
                   calls, effectsConfig, loads, probe, audio, xr, swarm>>

NextRamp == Ramp

SpecRamp == InitRamp /\ [][NextRamp]_vars

----------------------------------------------------------------------------
(* The FloatingLightsManager on its own: a caller that spawns and removes
   the lights of zones in any order.  calls keeps the latest calls, each
   with what the manager held when the call returned. *)

LightIds == {"hall", "nook"}

LightConfigs ==
    { [enabled |-> TRUE, count |-> 2],
      [enabled |-> TRUE],
      [enabled |-> TRUE, count |-> 0] }

LightBounds == [min |-> Vec(0, 0, 0), max |-> Vec(1, 1, 1)]

CallsKept == 3

(* The SDFs and the meshes of the particles of a group *)
GroupSdfs(zoneData) == {zoneData.particles[i].sdf : i \in DOMAIN zoneData.particles}

GroupMeshes(zoneData) == {zoneData.particles[i].sphere : i \in DOMAIN zoneData.particles}

(* A call and what the manager held when it returned *)
Call(op, id, config, m) ==
    [op |-> op, id |-> id, config |-> config,
     wasLive |-> id \in DOMAIN lightZones,
     threw |-> m.thrown,
     returned |-> IF op = "spawn" /\ id \in DOMAIN m.lightZones
                  THEN m.lightZones[id] ELSE NullValue,
     live |-> DOMAIN m.lightZones,
     count |-> IF id \in DOMAIN m.lightZones
               THEN Len(m.lightZones[id].particles) ELSE 0,
     sdfs |-> m.sdfs,
     meshes |-> m.meshes]

Keep(entry) ==
    IF Len(calls) < CallsKept THEN Append(calls, entry)
    ELSE Append(Tail(calls), entry)

Returned(m, entry) ==
    /\ lightZones' = m.lightZones
    /\ splatEditSdfs' = m.sdfs
    /\ sceneMeshes' = m.meshes
    /\ geometryDisposed' = m.disposed
    /\ frameLog' = m.log
    /\ calls' = Keep(entry)
    /\ UNCHANGED <<phase, zones, activeZones, loadThrew, targetFlickerIntensity,
                   currentFlickerIntensity, intensityVal, flickerAmountVal,
                   cameraWorldPos, lastEvent, rampStart, rampSteps, effectsConfig,
                   loads, probe, audio, xr, swarm>>

SpawnCall ==
    \E id \in LightIds, config \in LightConfigs :
        LET m == spawnForZone(FrameStart, id, LightBounds, config, {})
        IN Returned(m, Call("spawn", id, config, m))

RemoveCall ==
    \E id \in LightIds :
        LET m == removeForZone(FrameStart, id)
        IN Returned(m, Call("remove", id, NullValue, m))

RemoveAllCall ==
    LET m == removeAll(FrameStart)
    IN Returned(m, Call("removeAll", FrameId, NullValue, m))

InitLights ==
    /\ phase = "halted"
    /\ zones = <<>>
    /\ activeZones = {}
    /\ loadThrew = FALSE
    /\ lightZones = [k \in {} |-> NullValue]
    /\ splatEditSdfs = {}
    /\ sceneMeshes = {}
    /\ geometryDisposed = FALSE
    /\ targetFlickerIntensity = DZero
    /\ currentFlickerIntensity = DZero
    /\ intensityVal = DZero
    /\ flickerAmountVal = InitialFlickerAmount
    /\ cameraWorldPos = Vec(0, 0, 0)
    /\ frameLog = <<>>
    /\ lastEvent = [id \in ZoneIds |-> "none"]
    /\ rampStart = DZero
    /\ rampSteps = 0
    /\ calls = <<>>
    /\ effectsConfig = NullValue
    /\ loads = 0
    /\ probe = NoProbe
    /\ audio = NoAudio
    /\ xr = NoSession
    /\ swarm = NoSwarm

NextLights == SpawnCall \/ RemoveCall \/ RemoveAllCall

SpecLights == InitLights /\ [][NextLights]_vars

----------------------------------------------------------------------------
(* isInsideZone on its own: a caller asks whether a point is inside a zone
   that loadConfig built *)

MaxCoord == 5   \* the points asked about have coordinates in -1..MaxCoord

ProbePoints == {Vec(a, b, c) : a, b, c \in -1..MaxCoord}

(* Boxes: one with room on every side, one that is a single point, one whose
   min exceeds its max on an axis.  Spheres: of radius 5, 1 and 0 and of a
   negative radius, with various y and z in bounds.max.  And a zone that is
   neither. *)
ProbeEntries ==
    { [id |-> "box",      type |-> "box",
       bounds |-> [min |-> <<0, 1, 0>>, max |-> <<2, 3, 4>>]],
      [id |-> "untyped",
       bounds |-> [min |-> <<1, 0, 2>>, max |-> <<4, 4, 3>>]],
      [id |-> "point",    type |-> "box",
       bounds |-> [min |-> <<1, 2, 3>>, max |-> <<1, 2, 3>>]],
      [id |-> "inverted", type |-> "box",
       bounds |-> [min |-> <<0, 3, 0>>, max |-> <<4, 1, 4>>]],
      [id |-> "ball",     type |-> "sphere",
       bounds |-> [min |-> <<0, 0, 0>>, max |-> <<5, 0, 0>>]],
      [id |-> "bead",     type |-> "sphere",
       bounds |-> [min |-> <<2, 2, 2>>, max |-> <<1, 5, -3>>]],
      [id |-> "dot",      type |-> "sphere",
       bounds |-> [min |-> <<1, 1, 1>>, max |-> <<0, 4, 4>>]],
      [id |-> "hollow",   type |-> "sphere",
       bounds |-> [min |-> <<1, 1, 1>>, max |-> <<-1, 2, 2>>]],
      [id |-> "cone",     type |-> "cone",
       bounds |-> [min |-> <<0, 0, 0>>, max |-> <<3, 3, 3>>]] }

ProbeZones == {BuildZone(zoneConfig) : zoneConfig \in ProbeEntries}

InitInside ==
    /\ phase = "halted"
    /\ zones = <<>>
    /\ activeZones = {}
    /\ loadThrew = FALSE
    /\ lightZones = [k \in {} |-> NullValue]
    /\ splatEditSdfs = {}
    /\ sceneMeshes = {}
    /\ geometryDisposed = FALSE
    /\ targetFlickerIntensity = DZero
    /\ currentFlickerIntensity = DZero
    /\ intensityVal = DZero
    /\ flickerAmountVal = InitialFlickerAmount
    /\ cameraWorldPos = Vec(0, 0, 0)
    /\ frameLog = <<>>
    /\ lastEvent = [id \in ZoneIds |-> "none"]
    /\ rampStart = DZero
    /\ rampSteps = 0
    /\ calls = <<>>
    /\ effectsConfig = NullValue
    /\ loads = 0
    /\ probe \in {[asked |-> FALSE, point |-> point, zone |-> zone] :
                      point \in ProbePoints, zone \in ProbeZones}
    /\ audio = NoAudio
    /\ xr = NoSession
    /\ swarm = NoSwarm

(* isInsideZone(point, zone) *)
IsInsideCall ==
    /\ ~probe.asked
    /\ probe' = [asked |-> TRUE, point |-> probe.point, zone |-> probe.zone,
                 inside |-> isInsideZone(probe.point, probe.zone)]
    /\ UNCHANGED <<phase, zones, activeZones, loadThrew, lightZones, splatEditSdfs,
                   sceneMeshes, geometryDisposed, targetFlickerIntensity,
                   currentFlickerIntensity, intensityVal, flickerAmountVal,
                   cameraWorldPos, frameLog, lastEvent, rampStart, rampSteps, calls,
                   effectsConfig, loads, audio, xr, swarm>>

NextInside == IsInsideCall

SpecInside == InitInside /\ [][NextInside]_vars

----------------------------------------------------------------------------
(* Vocabulary of the properties *)

LogHas(log, op, id) == \E i \in DOMAIN log : log[i] = Ev(op, id)

LogCount(log, op, id) == Cardinality({i \in DOMAIN log : log[i] = Ev(op, id)})

FrameRan == frameLog # <<>>

FrameCompleted == LogHas(frameLog, "render", FrameId)

(* The ids of the registered zones that contain point *)
ContainingIds(point) ==
    {zones[i].id : i \in {j \in DOMAIN zones : isInsideZone(point, zones[j])}}

(* The registry indexes of the active zones whose effect is enabled *)
ActiveWith(effectName) ==
    {i \in DOMAIN zones :
        /\ zones[i].id \in activeZones
        /\ effectName \in DOMAIN zones[i].effects
        /\ zones[i].effects[effectName].enabled}

Contributing == ActiveWith("flickering")

(* lo <= v <= hi *)
Between(lo, v, hi) == lo <= v /\ v <= hi

(* The point lies in the range from lower to upper on each of the axes *)
InRange(point, lower, upper) ==
    \A axis \in {"x", "y", "z"} : Between(lower[axis], point[axis], upper[axis])

(* The square of the Euclidean distance between two points *)
SquaredDistance(p, q) ==
    LET Sq(v) == v * v
    IN Sq(p.x - q.x) + Sq(p.y - q.y) + Sq(p.z - q.z)

(* The effect names a caller asks getActiveEffect about: the two the zones
   configure and one that no zone configures *)
EffectNames == {"flickering", "floatingLights", "warp"}

(* The zone records of the registry *)
Registry == {zones[i] : i \in DOMAIN zones}

(* The registry index of the zone with an id *)
IndexOfId(id) == CHOOSE i \in DOMAIN zones : zones[i].id = id

(* The positions in the frame's log at which onEnter or onExit fired *)
EventsOf(log) == {i \in DOMAIN log : log[i].op \in {"enter", "exit"}}

(* The intensity the scan of getFlickerState uses for the zone at index i *)
UsedIntensity(i) == zoneFlickerIntensity(zones[i].effects.flickering)

(* The latest of a list of calls *)
LastOf(cs) == cs[Len(cs)]

(* The elements the particles of the live groups own *)
OwnedSdfs(lz) == UNION {GroupSdfs(lz[id]) : id \in DOMAIN lz}

OwnedMeshes(lz) == UNION {GroupMeshes(lz[id]) : id \in DOMAIN lz}

(* The particles of a group each own an SDF and a mesh of their own, all
   registered, and the group lists one SDF per particle *)
GroupIsWhole(zoneData, n, sdfs, meshes) ==
    /\ Len(zoneData.particles) = n
    /\ Len(zoneData.sdfs) = n
    /\ Cardinality(GroupSdfs(zoneData)) = n
    /\ Cardinality(GroupMeshes(zoneData)) = n
    /\ GroupSdfs(zoneData) \subseteq sdfs
    /\ GroupMeshes(zoneData) \subseteq meshes

(* The count a floatingLights configuration asks for *)
ConfiguredCount(config) ==
    IF "count" \in DOMAIN config THEN config.count ELSE DefaultCount

----------------------------------------------------------------------------
(* C1: enter and exit events are edge-triggered.  In every frame, onEnter
   fires for a zone exactly once if the zone contains the frame's position
   and was not in the active set before the frame, and not at all otherwise;
   onExit fires exactly once if it does not contain the position and was in
   the active set, and not at all otherwise; and per zone the events
   alternate, the first being onEnter. *)
C1_EdgeTriggered ==
    [][phase = "running" =>
         \A i \in DOMAIN zones :
            LET id == zones[i].id
                inside == isInsideZone(cameraWorldPos', zones[i])
                was == id \in activeZones
            IN /\ LogCount(frameLog', "enter", id) = (IF inside /\ ~was THEN 1 ELSE 0)
               /\ LogCount(frameLog', "exit", id) = (IF ~inside /\ was THEN 1 ELSE 0)
               /\ LogHas(frameLog', "enter", id) => lastEvent[id] \in {"none", "exit"}
               /\ LogHas(frameLog', "exit", id) => lastEvent[id] = "enter"]_vars

(* The observer has left a zone in which it dwelt for at least three frames *)
C1_Witness ==
    /\ LogHas(frameLog, "exit", "hall")
    /\ DLeq(DTimes(3, FadeStep), intensityVal)

(* C2: after every update that returns normally the active set is exactly
   the set of ids of the registered zones that contain the position. *)
C2_ActiveSetIsContainment ==
    FrameCompleted => activeZones = ContainingIds(cameraWorldPos)

(* A frame that left one zone and entered another *)
C2_Witness ==
    /\ FrameCompleted
    /\ activeZones # {}
    /\ \E a, b \in ZoneIds : LogHas(frameLog, "exit", a) /\ LogHas(frameLog, "enter", b)

(* C3 as stated: in a frame every membership evaluation precedes every
   aggregation, and every aggregation precedes every spawn and despawn. *)
C3_MembershipThenAggregationThenSpawn ==
    \A i, j \in DOMAIN frameLog :
        /\ (frameLog[i].op = "evaluate" /\ frameLog[j].op = "aggregate") => i < j
        /\ (frameLog[i].op = "aggregate" /\ frameLog[j].op \in {"spawn", "despawn"}) => i < j

(* C3 amended: in a frame each zone's membership change is followed at once
   by that zone's callback; in the callback the spawn or despawn comes
   first and the aggregation last; every aggregation belongs to the callback
   of the zone whose membership changed last, so every membership change of
   the frame is followed by an aggregation in the same frame. *)
C3_PerZoneOrder ==
    \A i \in DOMAIN frameLog :
        LET e == frameLog[i]
            n == Len(frameLog)
        IN /\ e.op = "add" => i < n /\ frameLog[i + 1] = Ev("enter", e.id)
           /\ e.op = "delete" => i < n /\ frameLog[i + 1] = Ev("exit", e.id)
           /\ e.op = "spawn" =>
                /\ i > 1 /\ frameLog[i - 1] = Ev("enter", e.id)
                /\ i < n /\ frameLog[i + 1] = Ev("aggregate", e.id)
           /\ e.op = "despawn" =>
                /\ i > 1 /\ frameLog[i - 1] = Ev("exit", e.id)
                /\ i < n /\ frameLog[i + 1] = Ev("aggregate", e.id)
           /\ e.op \in {"enter", "exit"} =>
                \E j \in DOMAIN frameLog :
                    /\ j \in {i + 1, i + 2}
                    /\ frameLog[j] = Ev("aggregate", e.id)
           /\ e.op = "aggregate" =>
                \E j \in DOMAIN frameLog :
                    /\ j \in {i - 1, i - 2}
                    /\ frameLog[j].op \in {"enter", "exit"}
                    /\ frameLog[j].id = e.id

(* A frame in which lights were spawned for one zone before a later zone's
   membership was evaluated *)
C3_Witness ==
    \E i, j \in DOMAIN frameLog :
        /\ i < j
        /\ frameLog[i].op = "spawn"
        /\ frameLog[j].op = "evaluate"

(* C4 as stated: a fault in a callback stays local.  Every frame that
   started evaluated every zone, advanced the particles, stepped the ramp
   and rendered, and the loop goes on. *)
C4_FaultIsContained ==
    FrameRan =>
        /\ \A i \in DOMAIN zones : LogHas(frameLog, "evaluate", zones[i].id)
        /\ LogHas(frameLog, "advance", FrameId)
        /\ LogHas(frameLog, "ramp", FrameId)
        /\ LogHas(frameLog, "render", FrameId)
        /\ phase = "running"

(* C5 as stated: loadConfig never throws. *)
C5_LoadNeverThrows == ~loadThrew

(* C6: at the end of every frame the zone ids that own a particle group are
   exactly the active zones whose floatingLights effect is enabled. *)
C6_GroupsMatchActiveLightZones ==
    phase = "running" =>
        DOMAIN lightZones = {zones[i].id : i \in ActiveWith("floatingLights")}

(* A frame that removed the group of one zone while another zone keeps its
   group *)
C6_Witness ==
    /\ FrameCompleted
    /\ DOMAIN lightZones # {}
    /\ \E id \in ZoneIds : LogHas(frameLog, "despawn", id)

(* C7 as stated: the intensity of getFlickerState is the maximum of the
   intensities used for the contributing zones, and its config is the
   flickering config of the first zone, in registry order, that attains it. *)
C7_FlickerIsMaximum ==
    LET flickerState == getFlickerState(zones, activeZones)
        winners == {i \in Contributing : UsedIntensity(i) = flickerState.intensity}
    IN Contributing # {} =>
          /\ winners # {}
          /\ \A j \in Contributing : DLeq(UsedIntensity(j), flickerState.intensity)
          /\ \E w \in winners :
                /\ \A v \in winners : w <= v
                /\ flickerState.config = zones[w].effects.flickering

(* C7 amended: when some contributing zone has a positive intensity, the
   intensity of getFlickerState is the maximum of the intensities used for
   the contributing zones and its config is the flickering config of the
   first zone, in registry order, that attains it; when none is positive
   the intensity is 0 and there is no config. *)
C7_FlickerIsPositiveMaximum ==
    LET flickerState == getFlickerState(zones, activeZones)
        winners == {i \in Contributing : UsedIntensity(i) = flickerState.intensity}
    IN Contributing # {} =>
          IF \E i \in Contributing : DLess(DZero, UsedIntensity(i))
          THEN /\ winners # {}
               /\ \A j \in Contributing : DLeq(UsedIntensity(j), flickerState.intensity)
               /\ \E w \in winners :
                     /\ \A v \in winners : w <= v
                     /\ flickerState.config = zones[w].effects.flickering
          ELSE /\ flickerState.intensity = DZero
               /\ flickerState.config = NullValue

(* Two contributing zones with different configs tie for the maximum *)
C7_Witness ==
    \E i, j \in Contributing :
        /\ i < j
        /\ UsedIntensity(i) = UsedIntensity(j)
        /\ DLess(DZero, UsedIntensity(i))
        /\ zones[i].effects.flickering # zones[j].effects.flickering

(* C8 as stated: the intensity used for a contributing zone is its
   flickerAmount whenever that is set, and 0.4 only when it is unset. *)
C8_IntensityIsFlickerAmount ==
    \A i \in Contributing :
        LET flickering == zones[i].effects.flickering
        IN UsedIntensity(i) = IF "flickerAmount" \in DOMAIN flickering
                              THEN flickering.flickerAmount
                              ELSE DefaultFlickerAmount

(* C9 as stated: getFlickerState().active is true exactly when a
   contributing zone exists, whatever the flickerAmount of those zones. *)
C9_ActiveIffContributing ==
    getFlickerState(zones, activeZones).active <=> Contributing # {}

(* C9 amended: active is true exactly when a contributing zone has a
   positive intensity; when the flickerAmount of every contributing zone is
   unset or not negative, that is exactly when a contributing zone exists. *)
C9_ActiveIffPositiveContributor ==
    LET active == getFlickerState(zones, activeZones).active
        NotNegative(flickering) ==
            "flickerAmount" \in DOMAIN flickering => DLeq(DZero, flickering.flickerAmount)
    IN /\ active <=> \E i \in Contributing : DLess(DZero, UsedIntensity(i))
       /\ (\A i \in Contributing : NotNegative(zones[i].effects.flickering))
             => (active <=> Contributing # {})

(* The only contributing zone has flickerAmount 0, and flicker is active *)
C9_Witness ==
    /\ Contributing # {}
    /\ \A i \in Contributing :
          zones[i].effects.flickering = [enabled |-> TRUE, flickerAmount |-> DZero]
    /\ getFlickerState(zones, activeZones).active

(* C10: with no contributing zone getFlickerState returns active = false,
   intensity = 0 and no config. *)
C10_NoContributorNoFlicker ==
    Contributing = {} =>
        getFlickerState(zones, activeZones) =
            [active |-> FALSE, intensity |-> DZero, config |-> NullValue]

(* The observer is inside a zone, no active zone contributes, and a zone
   that is not active has flickering enabled *)
C10_Witness ==
    /\ activeZones # {}
    /\ Contributing = {}
    /\ \E i \in DOMAIN zones : EffectEnabled(zones[i], "flickering")

(* C11 as stated: the value setIntensity receives in a frame is the ramped
   current value, and from one frame to the next it changes by at most
   FLICKER_FADE_SPEED * deltaTime, also in a frame where the target jumps. *)
C11_WrittenValueIsRateLimited ==
    [][LogHas(frameLog', "render", FrameId) =>
          /\ intensityVal' = currentFlickerIntensity'
          /\ DLeq(DAbs(ExactSub(intensityVal', intensityVal)), FadeStep)]_vars

(* C12 as stated: a ramp step moves current toward target by at most
   maxRate * deltaTime and never overshoots: afterwards current lies between
   its previous value and target, and a current equal to target stays. *)
C12_StepIsBoundedAndClamped ==
    [][rampSteps' = rampSteps + 1 =>
          LET current == currentFlickerIntensity
              next == currentFlickerIntensity'
              target == targetFlickerIntensity
          IN /\ DLeq(DAbs(ExactSub(next, current)), FadeStep)
             /\ \/ DLeq(current, next) /\ DLeq(next, target)
                \/ DLeq(target, next) /\ DLeq(next, current)
             /\ current = target => next = current]_vars

(* C13 as stated: from current = 0 with target = 1, current never decreases
   and never exceeds 1, and after 30 steps it is exactly 1. *)
C13_ThirtyStepsReachOne ==
    [][(rampStart = DZero /\ targetFlickerIntensity = DOne) =>
          /\ DLeq(currentFlickerIntensity, currentFlickerIntensity')
          /\ DLeq(currentFlickerIntensity', DOne)
          /\ rampSteps' = 30 => currentFlickerIntensity' = DOne]_vars

(* C14: spawnForZone is idempotent.  A call for a zone id that has a live
   group returns that group and changes neither the groups nor the
   registered elements; so after spawn calls in a row for one id the zone
   still has the group of the first of them. *)
C14_SpawnIsIdempotent ==
    [][LET e == LastOf(calls')
       IN e.op = "spawn" =>
            /\ e.id \in DOMAIN lightZones =>
                  /\ lightZones' = lightZones
                  /\ splatEditSdfs' = splatEditSdfs
                  /\ sceneMeshes' = sceneMeshes
                  /\ e.returned = lightZones[e.id]
                  /\ ~e.threw
            /\ (\A k \in DOMAIN calls' : calls'[k].op = "spawn" /\ calls'[k].id = e.id) =>
                  /\ e.returned = calls'[1].returned
                  /\ e.sdfs = calls'[1].sdfs
                  /\ e.meshes = calls'[1].meshes]_vars

(* Three spawn calls in a row for one zone, the later ones asking for more
   particles than the first, which created the group *)
C14_Witness ==
    /\ Len(calls) = 3
    /\ \A k \in DOMAIN calls : calls[k].op = "spawn" /\ calls[k].id = "hall"
    /\ ~calls[1].wasLive
    /\ calls[1].config = [enabled |-> TRUE, count |-> 2]
    /\ calls[2].config = [enabled |-> TRUE]
    /\ calls[3].config = [enabled |-> TRUE]
    /\ Len(lightZones["hall"].particles) = 2

(* C15: removeForZone(zoneId) unregisters every SDF and mesh of the zone's
   group, discards the group and leaves the other groups and their elements
   alone; for a zone without a live group it changes nothing; it never
   throws. *)
C15_RemoveClearsTheGroup ==
    [][LET e == LastOf(calls')
       IN e.op = "remove" =>
            /\ ~e.threw
            /\ IF e.id \in DOMAIN lightZones
               THEN /\ DOMAIN lightZones' = DOMAIN lightZones \ {e.id}
                    /\ \A k \in DOMAIN lightZones' : lightZones'[k] = lightZones[k]
                    /\ splatEditSdfs' = splatEditSdfs \ GroupSdfs(lightZones[e.id])
                    /\ sceneMeshes' = sceneMeshes \ GroupMeshes(lightZones[e.id])
                    /\ splatEditSdfs' = OwnedSdfs(lightZones')
                    /\ sceneMeshes' = OwnedMeshes(lightZones')
               ELSE /\ lightZones' = lightZones
                    /\ splatEditSdfs' = splatEditSdfs
                    /\ sceneMeshes' = sceneMeshes
                    /\ geometryDisposed' = geometryDisposed]_vars

(* The group of one zone was removed while the other zone keeps its group,
   and then the removal was asked for once more *)
C15_Witness ==
    /\ Len(calls) = 3
    /\ calls[2].op = "remove" /\ calls[2].wasLive
    /\ calls[3].op = "remove" /\ calls[3].id = calls[2].id
    /\ DOMAIN lightZones # {}

(* C16: in a frame in which a zone with floatingLights enabled is entered,
   the zone's group afterwards has exactly count particles, each with one
   registered SDF and one registered mesh; in a frame in which it is exited
   the zone has no group afterwards; and the registered elements are always
   exactly those of the live groups. *)
C16_EnterSpawnsCountExitLeavesNone ==
    [][/\ splatEditSdfs' = OwnedSdfs(lightZones')
       /\ sceneMeshes' = OwnedMeshes(lightZones')
       /\ \A i \in DOMAIN zones' :
            LET zone == zones'[i]
            IN EffectEnabled(zone, "floatingLights") =>
                 /\ LogHas(frameLog', "enter", zone.id) =>
                       /\ zone.id \in DOMAIN lightZones'
                       /\ GroupIsWhole(lightZones'[zone.id],
                                       ConfiguredCount(zone.effects.floatingLights),
                                       splatEditSdfs', sceneMeshes')
                 /\ LogHas(frameLog', "exit", zone.id) =>
                       zone.id \notin DOMAIN lightZones']_vars

(* A frame that left a zone with two lights and entered one with five *)
C16_Witness ==
    /\ LogHas(frameLog, "exit", "hall")
    /\ LogHas(frameLog, "enter", "nook")
    /\ Cardinality(splatEditSdfs) = DefaultCount
    /\ Cardinality(sceneMeshes) = DefaultCount

(* C17: removeAll is called in every state the caller can bring about (the
   call has no precondition), and whenever it has returned it has not
   thrown, no group exists and no SDF and no mesh is registered. *)
C17_RemoveAllLeavesNothing ==
    (calls # <<>> /\ LastOf(calls).op = "removeAll") =>
        /\ ~LastOf(calls).threw
        /\ DOMAIN lightZones = {}
        /\ splatEditSdfs = {}
        /\ sceneMeshes = {}

(* removeAll was called while two zones had their groups *)
C17_Witness ==
    /\ Len(calls) = 3
    /\ calls[1].op = "spawn"
    /\ calls[2].op = "spawn" /\ calls[2].live = LightIds
    /\ Cardinality(calls[2].sdfs) = DefaultCount + 2
    /\ calls[3].op = "removeAll"

(* C18: the round trip.  spawnForZone creates a group, removeForZone removes
   it, spawnForZone with the same id and config creates a group again: the
   new group has as many particles as the first, as many SDFs and meshes are
   registered as after the first spawn, and after the removal nothing of
   the first group was registered any more. *)
C18_RoundTrip ==
    (/\ Len(calls) = 3
     /\ calls[1].op = "spawn" /\ ~calls[1].wasLive
     /\ calls[2].op = "remove" /\ calls[2].id = calls[1].id
     /\ calls[3].op = "spawn" /\ calls[3].id = calls[1].id
     /\ calls[3].config = calls[1].config) =>
        /\ calls[3].count = calls[1].count
        /\ calls[3].live = calls[1].live
        /\ Cardinality(calls[3].sdfs) = Cardinality(calls[1].sdfs)
        /\ Cardinality(calls[3].meshes) = Cardinality(calls[1].meshes)
        /\ calls[2].sdfs = calls[1].sdfs \ GroupSdfs(calls[1].returned)
        /\ calls[2].meshes = calls[1].meshes \ GroupMeshes(calls[1].returned)
        /\ GroupIsWhole(calls[3].returned, calls[3].count, calls[3].sdfs, calls[3].meshes)
        /\ splatEditSdfs = OwnedSdfs(lightZones)
        /\ sceneMeshes = OwnedMeshes(lightZones)

(* A round trip of five lights while the other zone keeps its two *)
C18_Witness ==
    /\ Len(calls) = 3
    /\ calls[1].op = "spawn" /\ ~calls[1].wasLive
    /\ calls[2].op = "remove" /\ calls[2].id = calls[1].id
    /\ calls[3].op = "spawn" /\ calls[3].id = calls[1].id
    /\ calls[3].config = calls[1].config
    /\ calls[3].count = DefaultCount
    /\ calls[3].live = LightIds
    /\ Cardinality(splatEditSdfs) = DefaultCount + 2

(* C19: before the first update the active set is empty and no event has
   fired, whichever configuration was loaded and wherever the observer is:
   loadConfig evaluates no containment and calls no callback. *)
C19_NothingActiveBeforeFirstUpdate ==
    ~FrameRan =>
        /\ activeZones = {}
        /\ \A id \in ZoneIds : lastEvent[id] = "none"
        /\ DOMAIN lightZones = {}
        /\ targetFlickerIntensity = DZero

(* A configuration is loaded, no frame has run, and a zone contains the
   position of the observer *)
C19_Witness ==
    /\ phase = "running"
    /\ ~FrameRan
    /\ ContainingIds(cameraWorldPos) # {}

(* C20 as stated: the first frame fires no onEnter for the zones that
   contain the observer at that time. *)
C20_FirstFrameFiresNoEnter ==
    [][(phase = "running" /\ ~FrameRan) =>
          \A id \in ZoneIds : ~LogHas(frameLog', "enter", id)]_vars

(* C20 amended: no event fires before the first update; the first update
   fires onEnter exactly once for each zone that contains the observer, for
   no other zone, and fires no onExit. *)
C20_FirstFrameEntersContainingZones ==
    [][(phase = "running" /\ ~FrameRan) =>
          \A i \in DOMAIN zones :
             /\ lastEvent[zones[i].id] = "none"
             /\ LogCount(frameLog', "enter", zones[i].id) =
                   (IF isInsideZone(cameraWorldPos', zones[i]) THEN 1 ELSE 0)
             /\ ~LogHas(frameLog', "exit", zones[i].id)]_vars

(* The first frame found the observer inside two zones and entered both *)
C20_Witness ==
    /\ FrameCompleted
    /\ currentFlickerIntensity = FadeStep
    /\ Cardinality({id \in ZoneIds : LogHas(frameLog, "enter", id)}) = 2

(* C21: overlapping zones are all tracked.  After a frame every registered
   zone that contains the position is in the active set, each of them by an
   onEnter of its own, and the events a frame fired come in the registry
   order of their zones. *)
C21_OverlapsTrackedInRegistryOrder ==
    FrameCompleted =>
        /\ \A id \in ContainingIds(cameraWorldPos) :
              id \in activeZones /\ lastEvent[id] = "enter"
        /\ \A i, j \in EventsOf(frameLog) :
              i < j => IndexOfId(frameLog[i].id) < IndexOfId(frameLog[j].id)

(* The observer stands in two overlapping zones and entered both in this
   frame, the sphere, which the registry lists first, before the box *)
C21_Witness ==
    /\ FrameCompleted
    /\ Len(zones) = 2
    /\ zones[1].id = "room" /\ zones[2].id = "hall"
    /\ activeZones = {"room", "hall"}
    /\ \E i, j \in EventsOf(frameLog) :
          /\ i < j
          /\ frameLog[i] = Ev("enter", "room")
          /\ frameLog[j] = Ev("enter", "hall")

(* C22: a zone whose type is neither box nor sphere never activates.  Its
   containment test is false at every position, its id is never in the
   active set, no onEnter and no onExit has ever fired for it, and it has no
   particle group. *)
C22_UnknownShapeNeverActivates ==
    \A i \in DOMAIN zones :
        zones[i].type \notin {"box", "sphere"} =>
            /\ \A point \in Positions \cup ProbePoints : ~isInsideZone(point, zones[i])
            /\ zones[i].id \notin activeZones
            /\ lastEvent[zones[i].id] = "none"
            /\ zones[i].id \notin DOMAIN lightZones

(* The observer has stepped from one point within the bounds of a zone of
   unknown shape to another, leaving a box on the way *)
C22_Witness ==
    /\ FrameCompleted
    /\ \E i \in DOMAIN zones :
          /\ zones[i].type \notin {"box", "sphere"}
          /\ InRange(cameraWorldPos, zones[i].bounds.min, zones[i].bounds.max)
          /\ EffectEnabled(zones[i], "floatingLights")
    /\ \E id \in ZoneIds : LogHas(frameLog, "exit", id)

(* C23: for a box zone isInsideZone(point, zone) is true exactly when
   min <= point <= max holds on each of the three axes, the points on the
   six faces included. *)
C23_BoxIsClosedRange ==
    (probe.asked /\ probe.zone.type = "box") =>
        (probe.inside <=>
            InRange(probe.point, probe.zone.bounds.min, probe.zone.bounds.max))

(* The point asked about is the corner where three upper faces of a box
   meet, and is inside *)
C23_Witness ==
    /\ probe.asked
    /\ probe.zone.type = "box"
    /\ probe.zone.bounds.min # probe.zone.bounds.max
    /\ probe.point = probe.zone.bounds.max
    /\ probe.inside

(* C24: for a sphere zone, with the center in bounds.min and the radius in
   bounds.max.x, isInsideZone(point, zone) is true exactly when the
   Euclidean distance from the point to the center is at most the radius;
   the y and z of bounds.max have no part in it. *)
C24_SphereIsClosedBall ==
    (probe.asked /\ probe.zone.type = "sphere") =>
        LET center == probe.zone.bounds.min
            radius == probe.zone.bounds.max.x
        IN probe.inside <=>
              /\ radius >= 0
              /\ SquaredDistance(probe.point, center) <= radius * radius

(* The point asked about is on the sphere of radius 5 and on none of the
   axes through the center, and is inside *)
C24_Witness ==
    /\ probe.asked
    /\ probe.zone.type = "sphere"
    /\ probe.zone.bounds.max.x = 5
    /\ SquaredDistance(probe.point, probe.zone.bounds.min) = 25
    /\ probe.point.x # 0 /\ probe.point.y # 0
    /\ probe.inside

(* C25: getActiveZones returns exactly the zones that are Inside, each once,
   in the order of the registry, whatever the order in which they were
   entered; after a frame these are the zones that contain the position. *)
C25_ActiveZonesInRegistryOrder ==
    LET result == getActiveZones(zones, activeZones)
        inside == {i \in DOMAIN zones : zones[i].id \in activeZones}
    IN /\ Len(result) = Cardinality(inside)
       /\ \A i \in inside : \E k \in DOMAIN result : result[k] = zones[i]
       /\ \A k \in DOMAIN result : \E i \in inside : result[k] = zones[i]
       /\ \A k, l \in DOMAIN result :
             k < l => IndexOfId(result[k].id) < IndexOfId(result[l].id)
       /\ FrameCompleted =>
             {result[k].id : k \in DOMAIN result} = ContainingIds(cameraWorldPos)

(* Two zones are Inside, and the one the registry lists first was entered
   in this frame, after the other *)
C25_Witness ==
    /\ FrameCompleted
    /\ Len(zones) = 2
    /\ activeZones = {zones[1].id, zones[2].id}
    /\ LogHas(frameLog, "enter", zones[1].id)
    /\ ~LogHas(frameLog, "enter", zones[2].id)

(* C26: getActiveEffect(name) returns the first zone, in registry order,
   that is active and has the effect enabled, together with that zone's
   configuration of the effect; it returns null when no active zone has the
   effect enabled, as for a name that no zone configures. *)
C26_ActiveEffectIsFirstEnabled ==
    \A name \in EffectNames :
        LET hit == getActiveEffect(zones, activeZones, name)
            enabled == ActiveWith(name)
        IN /\ enabled = {} => hit = NullValue
           /\ enabled # {} =>
                 \E w \in enabled :
                    /\ \A v \in enabled : w <= v
                    /\ hit = [zone |-> zones[w], config |-> zones[w].effects[name]]
           /\ name = "warp" => hit = NullValue

(* Two active zones have the effect enabled with different configurations,
   while another effect is enabled in the second of them only *)
C26_Witness ==
    /\ Cardinality(ActiveWith("flickering")) = 2
    /\ \E i, j \in ActiveWith("flickering") :
          i < j /\ zones[i].effects.flickering # zones[j].effects.flickering
    /\ ActiveWith("floatingLights") = {2}

(* C27: getFloatingLightZones returns one { zone, config } entry for every
   active zone with floatingLights.enabled and none for any other zone, so
   overlapping zones are each listed; and the zones listed are those that
   have a particle group of their own. *)
C27_EveryActiveLightZoneListed ==
    LET result == getFloatingLightZones(zones, activeZones)
        lit == ActiveWith("floatingLights")
    IN /\ Len(result) = Cardinality(lit)
       /\ \A i \in lit : \E k \in DOMAIN result :
             result[k] = [zone |-> zones[i], config |-> zones[i].effects.floatingLights]
       /\ \A k \in DOMAIN result : \E i \in lit : result[k].zone = zones[i]
       /\ phase = "running" =>
             {result[k].zone.id : k \in DOMAIN result} = DOMAIN lightZones

(* The observer stands where two zones with floating lights overlap, and
   both are listed, each with its own count *)
C27_Witness ==
    LET result == getFloatingLightZones(zones, activeZones)
    IN /\ Len(result) = 2
       /\ "count" \in DOMAIN result[1].config
       /\ "count" \notin DOMAIN result[2].config
       /\ Cardinality(splatEditSdfs) = result[1].config.count + DefaultCount

(* C28 as stated: when a configuration is loaded again the membership state
   is reset to empty, so no zone id from before remains in the active set. *)
C28_ReloadResetsMembership ==
    [][(phase = "running" /\ loads' = loads + 1) => activeZones' = {}]_vars

(* C29: after load the registry is never mutated.  While the host runs,
   whatever update, the callbacks and the queries have done, the list of
   zones is the list loadConfig built from the document, with each zone's
   id, type, bounds and effects; and what the queries hand out are the
   records and the configurations of the registry. *)
C29_RegistryIsWhatLoadBuilt ==
    phase = "running" =>
        LET active == getActiveZones(zones, activeZones)
            lit == getFloatingLightZones(zones, activeZones)
            flickerState == getFlickerState(zones, activeZones)
        IN /\ zones = loadConfig(<<>>, {}, effectsConfig).zones
           /\ \A k \in DOMAIN active : active[k] \in Registry
           /\ \A k \in DOMAIN lit :
                 /\ lit[k].zone \in Registry
                 /\ lit[k].config = lit[k].zone.effects.floatingLights
           /\ \A name \in EffectNames :
                 LET hit == getActiveEffect(zones, activeZones, name)
                 IN hit # NullValue =>
                       hit.zone \in Registry /\ hit.config = hit.zone.effects[name]
           /\ flickerState.config # NullValue =>
                 \E z \in Registry : flickerState.config = z.effects.flickering
           /\ \A id \in DOMAIN lightZones :
                 \E z \in Registry :
                    /\ z.id = id
                    /\ lightZones[id].config = z.effects.floatingLights
                    /\ lightZones[id].bounds = z.bounds

(* A frame has spawned five lights for a zone whose configuration sets no
   count, and the configuration of the flicker has been read *)
C29_Witness ==
    /\ FrameCompleted
    /\ LogHas(frameLog, "spawn", "nook")
    /\ Len(lightZones["nook"].particles) = DefaultCount
    /\ \E z \in Registry : z.id = "nook" /\ "count" \notin DOMAIN z.effects.floatingLights
    /\ flickerAmountVal # InitialFlickerAmount

(* C30: loadConfig builds one zone record per entry of the document, in the
   order of the entries, with the entry's id and bounds; the type is the
   entry's, and box when the entry has none; the effects are the entry's,
   and an empty mapping when the entry has none.  A zone with empty effects
   contributes to no effect: active, it has no particle group, and every
   aggregate is what it would be without the zone in the active set. *)
C30_LoadBuildsRecordsWithDefaults ==
    (phase = "running" /\ Has(effectsConfig, "zones")) =>
        /\ Len(zones) = Len(effectsConfig.zones)
        /\ \A i \in DOMAIN zones :
              LET entry == effectsConfig.zones[i]
                  zone == zones[i]
                  others == activeZones \ {zone.id}
              IN /\ zone.id = entry.id
                 /\ zone.bounds.min = Vec(entry.bounds.min[1], entry.bounds.min[2],
                                          entry.bounds.min[3])
                 /\ zone.bounds.max = Vec(entry.bounds.max[1], entry.bounds.max[2],
                                          entry.bounds.max[3])
                 /\ zone.type = (IF "type" \in DOMAIN entry /\ entry.type # ""
                                 THEN entry.type ELSE "box")
                 /\ IF "effects" \in DOMAIN entry /\ entry.effects # NullValue
                    THEN zone.effects = entry.effects
                    ELSE DOMAIN zone.effects = {}
                 /\ DOMAIN zone.effects = {} =>
                       /\ zone.id \notin DOMAIN lightZones
                       /\ getFlickerState(zones, activeZones) = getFlickerState(zones, others)
                       /\ getFloatingLightZones(zones, activeZones)
                             = getFloatingLightZones(zones, others)
                       /\ \A name \in EffectNames :
                             getActiveEffect(zones, activeZones, name)
                                = getActiveEffect(zones, others, name)

(* The observer stands in a zone built from an entry without type and
   effects, listed first, and in a box that flickers *)
C30_Witness ==
    /\ FrameCompleted
    /\ Len(zones) = 2
    /\ DOMAIN effectsConfig.zones[1] = {"id", "bounds"}
    /\ activeZones = {zones[1].id, zones[2].id}
    /\ targetFlickerIntensity # DZero

(* C33: at the end of every frame the target of the ramp is the intensity
   getFlickerState returns for the active set the frame ended with, also
   when the frame entered and exited several zones, whose callbacks ran
   while later zones were not yet evaluated. *)
C33_TargetIsFinalAggregate ==
    phase = "running" =>
        targetFlickerIntensity = getFlickerState(zones, activeZones).intensity

(* A frame exited one flickering zone and then entered another, listed
   later, whose intensity differs *)
C33_Witness ==
    /\ FrameCompleted
    /\ \E i, j \in EventsOf(frameLog) :
          /\ i < j
          /\ frameLog[i].op = "exit" /\ frameLog[j].op = "enter"
          /\ EffectEnabled(zones[IndexOfId(frameLog[i].id)], "flickering")
          /\ EffectEnabled(zones[IndexOfId(frameLog[j].id)], "flickering")
          /\ UsedIntensity(IndexOfId(frameLog[i].id)) # UsedIntensity(IndexOfId(frameLog[j].id))
    /\ targetFlickerIntensity # DZero

(* C34: when, from some frame on, the active set no longer changes, the
   applied flicker intensity equals the target after finitely many further
   frames and stays equal to it: the ramp converges and does not oscillate
   about the target. *)
C34_RampConverges ==
    <>[][activeZones' = activeZones]_vars
        => <>[](intensityVal = targetFlickerIntensity)

(* A frame without a membership change ran with the intensity arrived at a
   target that is not the initial one *)
C34_Witness ==
    /\ FrameCompleted
    /\ EventsOf(frameLog) = {}
    /\ activeZones # {}
    /\ targetFlickerIntensity # DZero
    /\ intensityVal = targetFlickerIntensity

(* C31: a source that does not loop and has a triggerRadius is played by the
   proximity check at most once, whatever frames and toggles follow, and
   only in a frame in which audio is enabled and the listener is within
   triggerRadius of the source. *)
C31_TriggeredAtMostOnce ==
    \A i \in DOMAIN audio.sources :
        LET source == audio.sources[i]
        IN /\ Len(source.heard) <= 1
           /\ \A k \in DOMAIN source.heard :
                 /\ ~source.loop
                 /\ Has(source, "triggerRadius")
                 /\ source.heard[k].enabled
                 /\ SquaredDistance(source.heard[k].at, source.position)
                        <= source.triggerRadius * source.triggerRadius

(* The source was played by the proximity check, audio was switched off and on
   again, and a later frame has the listener within the radius once more *)
C31_Witness ==
    /\ audio.enabled
    /\ \E i \in DOMAIN audio.sources :
          LET source == audio.sources[i]
          IN /\ Len(source.heard) = 1
             /\ ~source.isPlaying
             /\ FrameCompleted
             /\ SquaredDistance(cameraWorldPos, source.position)
                    <= source.triggerRadius * source.triggerRadius
             /\ cameraWorldPos # source.heard[1].at

(* C32: in every interleaving of load completions and toggleAudio calls,
   whenever audio is enabled every loaded looping source is playing. *)
C32_EnabledLoopsPlay ==
    audio.enabled =>
        \A i \in DOMAIN audio.sources :
            audio.sources[i].loop => audio.sources[i].isPlaying

(* C38: the groups are independent: spawnForZone(z) and removeForZone(z)
   leave the group of every other zone as it was, its SDFs and meshes
   registered, and the sphere geometry its meshes share with the other
   groups undisposed. *)
C38_GroupsIndependent ==
    [][LET e == LastOf(calls')
       IN e.op \in {"spawn", "remove"} =>
            \A k \in DOMAIN lightZones \ {e.id} :
                /\ k \in DOMAIN lightZones'
                /\ lightZones'[k] = lightZones[k]
                /\ GroupSdfs(lightZones[k]) \subseteq splatEditSdfs'
                /\ GroupMeshes(lightZones[k]) \subseteq sceneMeshes'
                /\ lightZones[k].particles # <<>> =>
                      geometryDisposed' = geometryDisposed]_vars

(* C39: after a VR session starts, the compensation of a camera
   discontinuity is not applied in any of the first VR_ENTRY_GRACE_PERIOD
   frames of the session, only from the frame after them. *)
C39_NoShiftInGracePeriod ==
    xr.shifted => xr.xrFrames > VR_ENTRY_GRACE_PERIOD

(* The bounds of the group are in order on every axis *)
BoundsInOrder ==
    \A axis \in {"x", "y", "z"} : swarm.bounds.min[axis] <= swarm.bounds.max[axis]

(* C35: given min <= max on every axis, after every update the base position
   of each particle is within [min, max] on every axis; a coordinate that the
   drift took above max is set to min, one it took below min is set to max. *)
C35_WrapsAround ==
    (swarm.spawned /\ swarm.updated /\ BoundsInOrder) =>
        \A i \in DOMAIN swarm.particles :
            LET particle == swarm.particles[i]
                lower == swarm.bounds.min
                upper == swarm.bounds.max
            IN /\ InRange(particle.basePosition, lower, upper)
               /\ \A axis \in {"x", "y", "z"} :
                     particle.basePosition[axis] =
                        IF particle.drifted[axis] > upper[axis] THEN lower[axis]
                        ELSE IF particle.drifted[axis] < lower[axis] THEN upper[axis]
                        ELSE particle.drifted[axis]

(* The last update took a particle above max on one axis and below min on
   another, and put it back at the opposite bounds *)
C35_Witness ==
    /\ swarm.spawned /\ swarm.updated /\ BoundsInOrder
    /\ \E i \in DOMAIN swarm.particles :
          LET particle == swarm.particles[i]
          IN /\ particle.drifted.x > swarm.bounds.max.x
             /\ particle.basePosition.x = swarm.bounds.min.x
             /\ particle.drifted.y < swarm.bounds.min.y
             /\ particle.basePosition.y = swarm.bounds.max.y
             /\ swarm.bounds.min.x < swarm.bounds.max.x

(* C36: for box zones and for sphere zones, the base position of every
   particle of the group spawned for a zone is inside that zone, at spawn
   and after every update. *)
C36_ParticlesInsideZone ==
    swarm.spawned =>
        \A i \in DOMAIN swarm.particles :
            isInsideZone(swarm.particles[i].basePosition, swarm.zone)

(* C37: velocity, phase and timeOffset of a particle are what spawnForZone
   gave it, whatever updates have run: update changes the base position and
   what is displayed, nothing else. *)
C37_MotionParametersKept ==
    swarm.spawned =>
        \A i \in DOMAIN swarm.particles :
            LET particle == swarm.particles[i]
            IN /\ particle.velocity = particle.spawnedWith.velocity
               /\ particle.phase = particle.spawnedWith.phase
               /\ particle.timeOffset = particle.spawnedWith.timeOffset
               /\ particle.shown.base = particle.basePosition

(* An update wrapped a moving particle around and displayed it *)
C37_Witness ==
    /\ swarm.spawned /\ swarm.updated
    /\ \E i \in DOMAIN swarm.particles :
          LET particle == swarm.particles[i]
          IN /\ particle.velocity.x # 0
             /\ particle.drifted # particle.basePosition
             /\ particle.shown.waves = <<33 + particle.timeOffset, particle.phase>>
             /\ particle.timeOffset # 0

====
